---- MODULE Spec2Model ----
(***************************************************************************)
(* Execution-layer customisations of monad-revm: the transaction handler   *)
(* (validate_env, refund, reimburse_caller, reward_beneficiary), the gas   *)
(* schedule overrides, the repriced precompile table and the read-only     *)
(* staking precompile.                                                     *)
(*                                                                         *)
(* Integer widths are scaled: a u64 ranges over 0..U64Max and a u128 over  *)
(* 0..U128Mod-1, so that u64 * u128 products can leave the u128 range just *)
(* as they can in the program.  Journal balances (U256) are unbounded      *)
(* naturals: no U256 operation of the modelled code can overflow.          *)
(*                                                                         *)
(* The staking precompile works on bytes: an input, an output, a storage   *)
(* key and a 256-bit storage value are sequences of bytes (a U256 is kept  *)
(* as its 32 big-endian bytes), a u64 of the staking code is a natural     *)
(* number below 2^31, and a selector is the sequence of its four base-256  *)
(* digits, most significant first.                                         *)
(***************************************************************************)
EXTENDS Integers, Naturals, Sequences, FiniteSets, TLC

VARIABLES
    pc,         \* position of the handler's run: which step comes next
    tx,         \* the transaction environment (TxEnv)
    block,      \* the block environment (BlockEnv)
    cfg,        \* the configuration (chain id, MonadSpecId, gas schedule)
    db,         \* account state before the transaction (the database)
    journal,    \* account state of the journal (balances, nonces, storage)
    exec,       \* the frame result: instruction result and Gas counters
    result,     \* what transact returns: an error or the execution result
    envResult,  \* what validate_env returned for the transaction
    provider,   \* the MonadPrecompiles provider: stored spec and table
    call,       \* the last call into the gas schedule or the provider, and its return
    staking     \* the journal's view of the staking contract: storage, warm slots

vars == <<pc, tx, block, cfg, db, journal, exec, result, envResult, provider, call,
          staking>>

handlerVars == <<pc, tx, block, cfg, db, journal, exec, result, envResult>>

----------------------------------------------------------------------------
(* Bounds of the model *)

\* largest u64 value of the scaled model (stands for 2^64 - 1)
U64Max == 3

\* modulus of the scaled u128 (stands for 2^128)
U128Mod == 16

\* hypothetical chain hardforks after MonadEight
LaterForks == 1

\* scaled intrinsic gas of a transaction (stands for 21000)
InitialTxGas == 1

\* balance of a funded account in the database
RichBalance == 100

\* balance of a poorly funded account in the database
PoorBalance == 2

U128Max == U128Mod - 1

None == 0 - 1

Min(a, b) == IF a <= b THEN a ELSE b

----------------------------------------------------------------------------
(* Hardfork identifiers *)

MonadEight == 100

MonadSpecIds == MonadEight .. (MonadEight + LaterForks)

\* revm SpecId discriminants
LONDON == 12

MERGE == 15

CANCUN == 17

PRAGUE == 18

\* MonadSpecId::into_eth_spec: every arm of the match yields PRAGUE
into_eth_spec(spec) == CASE spec = MonadEight -> PRAGUE [] OTHER -> PRAGUE

\* MonadSpecId::is_enabled_in(self, other)
is_enabled_in(self, other) == other <= self

\* revm SpecId::is_enabled_in(self, other)
eth_is_enabled_in(self, other) == self >= other

----------------------------------------------------------------------------
(* Gas schedule *)

COLD_SLOAD_COST == 8100

COLD_ACCOUNT_ACCESS_COST == 10100

WARM_STORAGE_READ_COST == 100

\* GasId: the identifiers of the schedule
GasIds ==
    { "cold_storage_cost", "cold_storage_additional_cost",
      "cold_account_additional_cost", "warm_storage_read_cost",
      "sstore_static", "sstore_set_without_load_cost", "new_account_cost",
      "transfer_value_cost", "call_stipend", "create", "logdata",
      "keccak256_per_word" }

\* GasParams::new_spec: the base Ethereum schedule (Berlin and later)
new_spec(eth_spec) ==
    [ id \in GasIds |->
        CASE id = "cold_storage_cost" -> 2100
          [] id = "cold_storage_additional_cost" -> 2000
          [] id = "cold_account_additional_cost" -> 2500
          [] id = "warm_storage_read_cost" -> 100
          [] id = "sstore_static" -> 100
          [] id = "sstore_set_without_load_cost" -> 19900
          [] id = "new_account_cost" -> 25000
          [] id = "transfer_value_cost" -> 9000
          [] id = "call_stipend" -> 2300
          [] id = "create" -> 32000
          [] id = "logdata" -> 8
          [] id = "keccak256_per_word" -> 6 ]

\* GasParams::override_gas: each (id, value) pair of the sequence is written
override_gas(params, pairs) ==
    [ id \in DOMAIN params |->
        IF \E i \in DOMAIN pairs : pairs[i][1] = id
        THEN LET last == CHOOSE i \in DOMAIN pairs :
                           /\ pairs[i][1] = id
                           /\ \A k \in DOMAIN pairs : pairs[k][1] = id => k <= i
             IN  pairs[last][2]
        ELSE params[id] ]

\* monad_gas_params with the full cold cost written to the additional entries
monad_gas_params_full_cold(spec) ==
    override_gas(new_spec(into_eth_spec(spec)),
        << <<"cold_storage_cost", COLD_SLOAD_COST>>,
           <<"cold_storage_additional_cost", COLD_SLOAD_COST>>,
           <<"cold_account_additional_cost", COLD_ACCOUNT_ACCESS_COST>> >>)

\* monad_gas_params
monad_gas_params(spec) ==
    LET eth_spec == into_eth_spec(spec)
        params == new_spec(eth_spec)
    IN  IF is_enabled_in(MonadEight, spec)
        THEN override_gas(params,
               << <<"cold_storage_cost", COLD_SLOAD_COST>>,
                  <<"cold_storage_additional_cost",
                    COLD_SLOAD_COST - WARM_STORAGE_READ_COST>>,
                  <<"cold_account_additional_cost",
                    COLD_ACCOUNT_ACCESS_COST - WARM_STORAGE_READ_COST>> >>)
        ELSE params

\* the configuration of a chain hardfork carries that hardfork's schedule
new_cfg(spec) ==
    [ chain_id |-> 1, spec |-> spec, gas_params |-> monad_gas_params(spec) ]

----------------------------------------------------------------------------
(* Transactions *)

Legacy == 0

Eip1559 == 2

Eip4844 == 3

Accounts == {"alice", "bob", "carol"}

ChainId == new_cfg(MonadEight).chain_id

GasPrices == {1, 2, U128Mod \div 2}

TxEnvs ==
    { t \in [ tx_type : {Legacy, Eip1559, Eip4844},
              caller : {"alice"},
              target : {"alice", "bob"},
              value : {0, 1},
              gas_limit : 0 .. U64Max,
              gas_price : GasPrices,
              gas_priority_fee : {None, 0, 1},
              chain_id : {ChainId, ChainId + 1},
              blob_hashes : {0, 1} ] :
        /\ (t.tx_type = Legacy) => (t.gas_priority_fee = None)
        /\ (t.tx_type # Legacy) => (t.gas_priority_fee # None)
        /\ (t.tx_type # Eip4844) => (t.blob_hashes = 0) }

NoTx ==
    [ tx_type |-> Legacy, caller |-> "alice", target |-> "alice", value |-> 0,
      gas_limit |-> 0, gas_price |-> 0, gas_priority_fee |-> None,
      chain_id |-> ChainId, blob_hashes |-> 0 ]

\* Transaction::effective_gas_price(base_fee)
effective_gas_price(t, base_fee) ==
    IF t.tx_type = Legacy \/ t.gas_priority_fee = None
    THEN t.gas_price
    ELSE Min(t.gas_price, Min(base_fee + t.gas_priority_fee, U128Max))

----------------------------------------------------------------------------
(* Validation *)

\* validation::validate_tx_env(ctx, spec): transaction fields only
validate_tx_env(t, b, c, spec) ==
    CASE t.chain_id # c.chain_id -> "InvalidChainId"
      [] t.tx_type = Eip1559 /\ ~eth_is_enabled_in(spec, LONDON) -> "Eip1559NotSupported"
      [] t.tx_type = Eip4844 /\ ~eth_is_enabled_in(spec, CANCUN) -> "Eip4844NotSupported"
      [] t.tx_type # Legacy /\ t.gas_priority_fee > t.gas_price -> "PriorityFeeGreaterThanMaxFee"
      [] t.gas_price < b.basefee -> "GasPriceLessThanBasefee"
      [] t.tx_type = Eip4844 /\ t.blob_hashes = 0 -> "EmptyBlobs"
      [] t.gas_limit > b.gas_limit -> "CallerGasLimitMoreThanBlock"
      [] OTHER -> "Ok"

\* validation::validate_env(ctx, spec): block-header checks, then validate_tx_env
validate_block_and_tx_env(t, b, c, spec) ==
    CASE eth_is_enabled_in(spec, MERGE) /\ b.prevrandao = None -> "PrevrandaoNotSet"
      [] eth_is_enabled_in(spec, CANCUN) /\ b.blob_excess_gas = None -> "ExcessBlobGasNotSet"
      [] OTHER -> validate_tx_env(t, b, c, spec)

\* validate_env with the blob rejection placed after the field validation
validate_env_blob_check_last(t, b, c) ==
    LET r == validate_tx_env(t, b, c, into_eth_spec(c.spec))
    IN  IF r # "Ok" THEN r
        ELSE IF t.tx_type = Eip4844 THEN "Eip4844NotSupported" ELSE "Ok"

\* validate_env delegating to the combined validator, header checks included
validate_env_with_header_checks(t, b, c) ==
    IF t.tx_type = Eip4844
    THEN "Eip4844NotSupported"
    ELSE validate_block_and_tx_env(t, b, c, into_eth_spec(c.spec))

\* MonadHandler::validate_env
validate_env(t, b, c) ==
    IF t.tx_type = Eip4844
    THEN "Eip4844NotSupported"
    ELSE validate_tx_env(t, b, c, into_eth_spec(c.spec))

----------------------------------------------------------------------------
(* The handler's run, one action per step *)

NoExec == [ result |-> "None", limit |-> 0, spent |-> 0, refunded |-> 0, accumulated |-> 0 ]

NoResult == [ kind |-> "None", gas_used |-> 0, gas_refunded |-> 0 ]

BlockEnvs ==
    [ basefee : {0, 1},
      beneficiary : {"alice", "carol"},
      gas_limit : {U64Max},
      prevrandao : {None, 0},
      blob_excess_gas : {None, 0} ]

Databases ==
    { [ balance |-> [ a \in Accounts |-> IF a = "alice" THEN x ELSE IF a = "carol" THEN 7 ELSE 0 ],
        nonce |-> [ a \in Accounts |-> 0 ],
        storage |-> [ a \in Accounts |-> 0 ] ] : x \in {PoorBalance, RichBalance} }

InitHandler ==
    /\ pc = "validate_env"
    /\ tx = NoTx
    /\ block \in BlockEnvs
    /\ cfg \in { new_cfg(s) : s \in MonadSpecIds }
    /\ db \in Databases
    /\ journal = db
    /\ exec = NoExec
    /\ result = NoResult
    /\ envResult = "None"

\* transact(tx): the transaction is set and Handler::validate_env runs
ValidateEnv ==
    /\ pc = "validate_env"
    /\ \E t \in TxEnvs :
        /\ tx' = t
        /\ LET r == validate_env(t, block, cfg) IN
            /\ envResult' = r
            /\ IF r = "Ok"
               THEN /\ pc' = "pre_execution"
                    /\ result' = result
               ELSE /\ pc' = "rejected"
                    /\ result' = [ kind |-> r, gas_used |-> 0, gas_refunded |-> 0 ]
    /\ UNCHANGED <<block, cfg, db, journal, exec, provider, call, staking>>

\* Handler::validate_initial_tx_gas and pre_execution's
\* validate_against_state_and_deduct_caller: the caller must afford
\* gas_limit * max fee + value, and gas_limit * effective_gas_price is taken
\* from it (U256 arithmetic)
PreExecution ==
    /\ pc = "pre_execution"
    /\ LET egp == effective_gas_price(tx, block.basefee)
           bal == journal.balance[tx.caller]
       IN  IF tx.gas_limit < InitialTxGas
           THEN /\ pc' = "rejected"
                /\ result' = [ kind |-> "CallGasCostMoreThanGasLimit",
                               gas_used |-> 0, gas_refunded |-> 0 ]
                /\ journal' = journal
           ELSE IF tx.gas_limit * tx.gas_price + tx.value > bal
           THEN /\ pc' = "rejected"
                /\ result' = [ kind |-> "LackOfFundForMaxFee",
                               gas_used |-> 0, gas_refunded |-> 0 ]
                /\ journal' = journal
           ELSE /\ pc' = "execution"
                /\ result' = result
                /\ journal' = [ journal EXCEPT
                                  !.balance[tx.caller] = bal - tx.gas_limit * egp,
                                  !.nonce[tx.caller] = @ + 1 ]
    /\ UNCHANGED <<tx, block, cfg, db, exec, envResult, provider, call, staking>>

\* largest refund counter the interpreter accumulates, and largest EIP-7702 refund
MaxRefund == 1

\* the value transfer of the first frame
transfer(j, from, to, value) ==
    LET debited == [ j.balance EXCEPT ![from] = @ - value ]
    IN  [ j EXCEPT !.balance = [ debited EXCEPT ![to] = @ + value ] ]

\* the interpreter runs the first frame: any outcome, any gas use within the
\* limit; only a successful frame keeps its transfer, its storage write and
\* its refund counter
Execution ==
    /\ pc = "execution"
    /\ \E r \in {"Success", "Revert", "Halt"},
          used \in InitialTxGas .. tx.gas_limit,
          refund \in 0 .. MaxRefund :
        /\ (r = "Halt") => (used = tx.gas_limit)
        /\ (r # "Success") => (refund = 0)
        /\ exec' = [ result |-> r, limit |-> tx.gas_limit,
                     spent |-> used, refunded |-> refund,
                     accumulated |-> refund ]
        /\ journal' =
             IF r = "Success"
             THEN [ transfer(journal, tx.caller, tx.target, tx.value)
                      EXCEPT !.storage[tx.target] = 1 ]
             ELSE journal
    /\ pc' = "refund"
    /\ UNCHANGED <<tx, block, cfg, db, result, envResult, provider, call, staking>>

\* Gas::set_refund
set_refund(gas, refund) == [ gas EXCEPT !.refunded = refund ]

\* refund that records the EIP-7702 refund on top of the counter
refund_recording(exec_result, eip7702_refund) ==
    set_refund(exec_result, exec_result.refunded + eip7702_refund)

\* MonadHandler::refund
refund(exec_result, eip7702_refund) == set_refund(exec_result, 0)

Refund ==
    /\ pc = "refund"
    /\ \E eip7702_refund \in 0 .. MaxRefund :
        exec' = refund(exec, eip7702_refund)
    /\ pc' = "reimburse_caller"
    /\ UNCHANGED <<tx, block, cfg, db, journal, result, envResult, provider, call, staking>>

\* reimburse_caller as the mainnet handler does it: unused and refunded gas
\* is paid back at the effective gas price
reimburse_caller_mainnet(j, t, b, exec_result) ==
    [ j EXCEPT !.balance[t.caller] =
        @ + effective_gas_price(t, b.basefee)
              * (exec_result.limit - exec_result.spent + exec_result.refunded) ]

\* MonadHandler::reimburse_caller
reimburse_caller(j, t, b, exec_result) == j

ReimburseCaller ==
    /\ pc = "reimburse_caller"
    /\ journal' = reimburse_caller(journal, tx, block, exec)
    /\ pc' = "reward_beneficiary"
    /\ UNCHANGED <<tx, block, cfg, db, exec, result, envResult, provider, call, staking>>

saturating_sub(a, b) == IF a >= b THEN a - b ELSE 0

\* coinbase_gas_price of MonadHandler::reward_beneficiary
coinbase_gas_price(t, b, c) ==
    LET basefee == b.basefee
        egp == effective_gas_price(t, basefee)
    IN  IF eth_is_enabled_in(into_eth_spec(c.spec), LONDON)
        THEN saturating_sub(egp, basefee)
        ELSE egp

\* the operands of `coinbase_gas_price * gas_limit as u128`, multiplied exactly
reward_product(t, b, c) == coinbase_gas_price(t, b, c) * t.gas_limit

\* JournalTr::balance_incr
balance_incr(j, address, amount) == [ j EXCEPT !.balance[address] = @ + amount ]

\* MonadHandler::reward_beneficiary.  The u128 multiplication wraps in a
\* build without overflow checks and panics in a build with them.
RewardBeneficiary ==
    /\ pc = "reward_beneficiary"
    /\ LET p == reward_product(tx, block, cfg)
       IN  \/ /\ journal' = balance_incr(journal, block.beneficiary, p % U128Mod)
              /\ pc' = "output"
           \/ /\ p >= U128Mod
              /\ journal' = journal
              /\ pc' = "panicked"
    /\ UNCHANGED <<tx, block, cfg, db, exec, result, envResult, provider, call, staking>>

\* Handler::execution_result: gas_used = spent - refunded, gas_refunded = refunded
Output ==
    /\ pc = "output"
    /\ result' = [ kind |-> exec.result,
                   gas_used |-> exec.spent - exec.refunded,
                   gas_refunded |-> exec.refunded ]
    /\ pc' = "done"
    /\ UNCHANGED <<tx, block, cfg, db, journal, exec, envResult, provider, call, staking>>

NextHandler ==
    \/ ValidateEnv
    \/ PreExecution
    \/ Execution
    \/ Refund
    \/ ReimburseCaller
    \/ RewardBeneficiary
    \/ Output

----------------------------------------------------------------------------
(* Repriced precompiles *)

MONAD_ECRECOVER_GAS == 6000

MONAD_EC_ADD_GAS == 300

MONAD_EC_MUL_GAS == 30000

MONAD_EC_PAIRING_BASE_GAS == 225000

MONAD_EC_PAIRING_PER_POINT_GAS == 170000

MONAD_BLAKE2F_ROUND_GAS == 2

MONAD_POINT_EVALUATION_GAS == 200000

\* secp256r1::P256VERIFY_BASE_GAS_FEE
P256VERIFY_BASE_GAS_FEE == 3450

\* largest number of blake2f rounds an input carries
MaxRounds == 2

\* An input is its length and the content the run functions look at: whether
\* the cryptographic material is good, the v byte of an ecRecover input, the
\* rounds and the final-block flag of a blake2f input.
Inputs ==
    { i \in [ len : {0, 128, 160, 192, 213, 384},
              content : {"good", "bad", "mismatch"},
              v : {0, 27},
              rounds : 0 .. MaxRounds,
              flag : {0, 1, 2} ] :
        /\ (i.len # 128) => (i.v = 0)
        /\ (i.len # 213) => (i.rounds = 0 /\ i.flag = 0)
        /\ (i.len = 213) => (i.content = "good")
        /\ (i.len # 192) => (i.content # "mismatch") }

\* PrecompileResult: Ok(PrecompileOutput { gas_used, bytes }) with the bytes
\* kept as their length, or Err(error)
Ok(gas_used, out_len) ==
    [ kind |-> "Ok", gas_used |-> gas_used, out_len |-> out_len, error |-> "None" ]

Err(error) ==
    [ kind |-> "Err", gas_used |-> None, out_len |-> None, error |-> error ]

\* monad_ecrecover_run that also refuses a gas limit equal to the price
monad_ecrecover_run_strict(input, gas_limit) ==
    IF MONAD_ECRECOVER_GAS >= gas_limit
    THEN Err("OutOfGas")
    ELSE Ok(MONAD_ECRECOVER_GAS, 0)

\* monad_ecrecover_run: the input is right-padded to 128 bytes, so a shorter
\* input has a zero v
monad_ecrecover_run(input, gas_limit) ==
    IF MONAD_ECRECOVER_GAS > gas_limit
    THEN Err("OutOfGas")
    ELSE IF ~(input.len >= 64 /\ input.v \in {27, 28})
    THEN Ok(MONAD_ECRECOVER_GAS, 0)
    ELSE IF input.content = "good"
    THEN Ok(MONAD_ECRECOVER_GAS, 32)
    ELSE Ok(MONAD_ECRECOVER_GAS, 0)

\* bn254::run_add(input, gas_cost, gas_limit)
run_add(input, gas_cost, gas_limit) ==
    IF gas_cost > gas_limit
    THEN Err("OutOfGas")
    ELSE IF input.len > 0 /\ input.content # "good"
    THEN Err("Bn254FieldPointNotAMember")
    ELSE Ok(gas_cost, 64)

\* bn254::run_mul(input, gas_cost, gas_limit)
run_mul(input, gas_cost, gas_limit) ==
    IF gas_cost > gas_limit
    THEN Err("OutOfGas")
    ELSE IF input.len > 0 /\ input.content # "good"
    THEN Err("Bn254FieldPointNotAMember")
    ELSE Ok(gas_cost, 64)

\* bn254::run_pair(input, pair_per_point_cost, pair_base_cost, gas_limit)
run_pair(input, pair_per_point_cost, pair_base_cost, gas_limit) ==
    LET gas_used == (input.len \div 192) * pair_per_point_cost + pair_base_cost
    IN  IF gas_used > gas_limit
        THEN Err("OutOfGas")
        ELSE IF input.len % 192 # 0
        THEN Err("Bn254PairLength")
        ELSE IF input.len > 0 /\ input.content # "good"
        THEN Err("Bn254FieldPointNotAMember")
        ELSE Ok(gas_used, 32)

\* monad_ec_add_run
monad_ec_add_run(input, gas_limit) == run_add(input, MONAD_EC_ADD_GAS, gas_limit)

\* monad_ec_mul_run
monad_ec_mul_run(input, gas_limit) == run_mul(input, MONAD_EC_MUL_GAS, gas_limit)

\* monad_ec_pairing_run with the two prices passed in each other's place
monad_ec_pairing_run_swapped(input, gas_limit) ==
    run_pair(input, MONAD_EC_PAIRING_BASE_GAS, MONAD_EC_PAIRING_PER_POINT_GAS, gas_limit)

\* monad_ec_pairing_run
monad_ec_pairing_run(input, gas_limit) ==
    run_pair(input, MONAD_EC_PAIRING_PER_POINT_GAS, MONAD_EC_PAIRING_BASE_GAS, gas_limit)

\* monad_blake2f_run looking at the final-block flag before the gas
monad_blake2f_run_flag_first(input, gas_limit) ==
    IF input.len # 213
    THEN Err("Blake2WrongLength")
    ELSE IF input.flag \notin {0, 1}
    THEN Err("Blake2WrongFinalIndicatorFlag")
    ELSE IF input.rounds * MONAD_BLAKE2F_ROUND_GAS > gas_limit
    THEN Err("OutOfGas")
    ELSE Ok(input.rounds * MONAD_BLAKE2F_ROUND_GAS, 64)

\* monad_blake2f_run
monad_blake2f_run(input, gas_limit) ==
    IF input.len # 213
    THEN Err("Blake2WrongLength")
    ELSE LET rounds == input.rounds
             gas_used == rounds * MONAD_BLAKE2F_ROUND_GAS
         IN  IF gas_used > gas_limit
             THEN Err("OutOfGas")
             ELSE IF input.flag \notin {0, 1}
             THEN Err("Blake2WrongFinalIndicatorFlag")
             ELSE Ok(gas_used, 64)

\* monad_point_evaluation_run
monad_point_evaluation_run(input, gas_limit) ==
    IF gas_limit < MONAD_POINT_EVALUATION_GAS
    THEN Err("OutOfGas")
    ELSE IF input.len # 192
    THEN Err("BlobInvalidInputLength")
    ELSE IF input.content = "mismatch"
    THEN Err("BlobMismatchedVersion")
    ELSE IF input.content # "good"
    THEN Err("BlobVerifyKzgProofFailed")
    ELSE Ok(MONAD_POINT_EVALUATION_GAS, 64)

\* secp256r1::p256_verify: a failed verification is an empty output
p256_verify(input, gas_limit) ==
    IF P256VERIFY_BASE_GAS_FEE > gas_limit
    THEN Err("OutOfGas")
    ELSE IF input.len = 160 /\ input.content = "good"
    THEN Ok(P256VERIFY_BASE_GAS_FEE, 32)
    ELSE Ok(P256VERIFY_BASE_GAS_FEE, 0)

\* the Ethereum run functions the chain reprices, at their Ethereum prices
eth_run(fn, input, gas_limit) ==
    CASE fn = "ec_recover_run" ->
           IF 3000 > gas_limit THEN Err("OutOfGas")
           ELSE IF input.len >= 64 /\ input.v \in {27, 28} /\ input.content = "good"
           THEN Ok(3000, 32) ELSE Ok(3000, 0)
      [] fn = "bn254_add_run" -> run_add(input, 150, gas_limit)
      [] fn = "bn254_mul_run" -> run_mul(input, 6000, gas_limit)
      [] fn = "bn254_pair_run" -> run_pair(input, 34000, 45000, gas_limit)
      [] fn = "blake2f_run" ->
           IF input.len # 213 THEN Err("Blake2WrongLength")
           ELSE IF input.rounds > gas_limit THEN Err("OutOfGas")
           ELSE IF input.flag \notin {0, 1} THEN Err("Blake2WrongFinalIndicatorFlag")
           ELSE Ok(input.rounds, 64)
      [] fn = "kzg_point_evaluation_run" ->
           IF gas_limit < 50000 THEN Err("OutOfGas")
           ELSE IF input.len # 192 THEN Err("BlobInvalidInputLength")
           ELSE IF input.content = "mismatch" THEN Err("BlobMismatchedVersion")
           ELSE IF input.content # "good" THEN Err("BlobVerifyKzgProofFailed")
           ELSE Ok(50000, 64)
      [] fn = "sha256_run" ->
           LET cost == 60 + 12 * ((input.len + 31) \div 32)
           IN  IF cost > gas_limit THEN Err("OutOfGas") ELSE Ok(cost, 32)
      [] fn = "identity_run" ->
           LET cost == 15 + 3 * ((input.len + 31) \div 32)
           IN  IF cost > gas_limit THEN Err("OutOfGas") ELSE Ok(cost, input.len)

\* Precompile::execute: the run function of a table entry
execute(fn, input, gas_limit) ==
    CASE fn = "monad_ecrecover_run" -> monad_ecrecover_run(input, gas_limit)
      [] fn = "monad_ec_add_run" -> monad_ec_add_run(input, gas_limit)
      [] fn = "monad_ec_mul_run" -> monad_ec_mul_run(input, gas_limit)
      [] fn = "monad_ec_pairing_run" -> monad_ec_pairing_run(input, gas_limit)
      [] fn = "monad_blake2f_run" -> monad_blake2f_run(input, gas_limit)
      [] fn = "monad_point_evaluation_run" -> monad_point_evaluation_run(input, gas_limit)
      [] fn = "p256_verify" -> p256_verify(input, gas_limit)
      [] OTHER -> eth_run(fn, input, gas_limit)

\* the run functions this model executes (modexp and the BLS12-381 functions
\* are table entries only)
Executable ==
    { "monad_ecrecover_run", "monad_ec_add_run", "monad_ec_mul_run",
      "monad_ec_pairing_run", "monad_blake2f_run", "monad_point_evaluation_run",
      "p256_verify", "ec_recover_run", "bn254_add_run", "bn254_mul_run",
      "bn254_pair_run", "blake2f_run", "kzg_point_evaluation_run",
      "sha256_run", "identity_run" }

----------------------------------------------------------------------------
(* The precompile table and its provider *)

\* u64_to_address(0x0100)
P256VERIFY_ADDRESS == 256

\* Precompile constants: (id, address, run function)
MONAD_ECRECOVER == [ id |-> "EcRec", address |-> 1, fn |-> "monad_ecrecover_run" ]

MONAD_EC_ADD == [ id |-> "Bn254Add", address |-> 6, fn |-> "monad_ec_add_run" ]

MONAD_EC_MUL == [ id |-> "Bn254Mul", address |-> 7, fn |-> "monad_ec_mul_run" ]

MONAD_EC_PAIRING == [ id |-> "Bn254Pairing", address |-> 8, fn |-> "monad_ec_pairing_run" ]

MONAD_BLAKE2F == [ id |-> "Blake2F", address |-> 9, fn |-> "monad_blake2f_run" ]

MONAD_POINT_EVALUATION ==
    [ id |-> "KzgPointEvaluation", address |-> 10, fn |-> "monad_point_evaluation_run" ]

P256VERIFY == [ id |-> "P256Verify", address |-> P256VERIFY_ADDRESS, fn |-> "p256_verify" ]

\* Precompiles::new(PrecompileSpecId): the base Ethereum table of a hardfork,
\* a map from address to entry
Precompiles_new(eth_spec) ==
    LET homestead ==
            { [ id |-> "EcRec", address |-> 1, fn |-> "ec_recover_run" ],
              [ id |-> "Sha256", address |-> 2, fn |-> "sha256_run" ],
              [ id |-> "Ripemd160", address |-> 3, fn |-> "ripemd160_run" ],
              [ id |-> "Identity", address |-> 4, fn |-> "identity_run" ] }
        byzantium ==
            { [ id |-> "ModExp", address |-> 5, fn |-> "modexp_run" ],
              [ id |-> "Bn254Add", address |-> 6, fn |-> "bn254_add_run" ],
              [ id |-> "Bn254Mul", address |-> 7, fn |-> "bn254_mul_run" ],
              [ id |-> "Bn254Pairing", address |-> 8, fn |-> "bn254_pair_run" ] }
        istanbul == { [ id |-> "Blake2F", address |-> 9, fn |-> "blake2f_run" ] }
        cancun ==
            { [ id |-> "KzgPointEvaluation", address |-> 10,
                fn |-> "kzg_point_evaluation_run" ] }
        prague ==
            { [ id |-> "Bls12", address |-> a, fn |-> "bls12_381_run" ] : a \in 11 .. 17 }
        entries ==
            homestead
              \cup (IF eth_is_enabled_in(eth_spec, 6) THEN byzantium ELSE {})
              \cup (IF eth_is_enabled_in(eth_spec, 9) THEN istanbul ELSE {})
              \cup (IF eth_is_enabled_in(eth_spec, CANCUN) THEN cancun ELSE {})
              \cup (IF eth_is_enabled_in(eth_spec, PRAGUE) THEN prague ELSE {})
    IN  [ a \in { e.address : e \in entries } |->
            CHOOSE e \in entries : e.address = a ]

\* Precompiles::extend: every entry of the sequence is inserted at its
\* address, replacing the entry that was there
extend(precompiles, items) ==
    LET addrs == { items[i].address : i \in DOMAIN items }
    IN  [ a \in (DOMAIN precompiles) \cup addrs |->
            IF a \in addrs
            THEN LET last == CHOOSE i \in DOMAIN items :
                               /\ items[i].address = a
                               /\ \A k \in DOMAIN items : items[k].address = a => k <= i
                 IN  items[last]
            ELSE precompiles[a] ]

\* A provider that keeps the Ethereum table and only adds P256VERIFY
new_with_spec_no_override(spec) ==
    [ precompiles |-> extend(Precompiles_new(into_eth_spec(spec)), << P256VERIFY >>),
      spec |-> spec ]

\* MonadPrecompiles::new_with_spec
new_with_spec(spec) ==
    LET base == Precompiles_new(into_eth_spec(spec))
        repriced == extend(base, << MONAD_ECRECOVER, MONAD_EC_ADD, MONAD_EC_MUL,
                                    MONAD_EC_PAIRING, MONAD_BLAKE2F,
                                    MONAD_POINT_EVALUATION >>)
        precompiles == extend(repriced, << P256VERIFY >>)
    IN  [ precompiles |-> precompiles, spec |-> spec ]

\* PrecompileProvider::contains
contains(p, address) == address \in DOMAIN p.precompiles

\* set_spec that rebuilds and answers true whatever the stored spec is
set_spec_always_rebuild(p, spec) ==
    [ provider |-> new_with_spec(spec), returned |-> TRUE ]

\* PrecompileProvider::set_spec: the new provider and the returned flag
set_spec(p, spec) ==
    IF spec = p.spec
    THEN [ provider |-> p, returned |-> FALSE ]
    ELSE [ provider |-> new_with_spec(spec), returned |-> TRUE ]

\* PrecompileProvider::run: None for an address outside the table
run(p, address, input, gas_limit) ==
    IF address \in DOMAIN p.precompiles
    THEN execute(p.precompiles[address].fn, input, gas_limit)
    ELSE [ kind |-> "None", gas_used |-> None, out_len |-> None, error |-> "None" ]

\* the staking address 0x1000
STAKING_ADDRESS == 4096

Addresses == (0 .. 18) \cup {P256VERIFY_ADDRESS, STAKING_ADDRESS}

GasLimits ==
    { 0, 1, 2, 3, 4, 6, 299, 300, 3449, 3450, 5999, 6000, 29999, 30000,
      199999, 200000, 394999, 395000, 565000, 1000000 }

NoCall == [ op |-> "none" ]

InitEnv ==
    /\ provider = new_with_spec(MonadEight)
    /\ call = NoCall
    /\ staking = [ storage |-> {}, warm |-> {}, failing |-> {} ]

\* the configuration is rebuilt for a hardfork
SetCfgSpec ==
    /\ call = NoCall
    /\ \E s \in MonadSpecIds : cfg' = new_cfg(s)
    /\ call' = [ op |-> "set_cfg_spec" ]
    /\ UNCHANGED <<pc, tx, block, db, journal, exec, result, envResult, provider, staking>>

\* GasParams::get
GasGet ==
    /\ call = NoCall
    /\ \E id \in GasIds :
        call' = [ op |-> "gas_get", id |-> id, returned |-> cfg.gas_params[id] ]
    /\ UNCHANGED <<pc, tx, block, cfg, db, journal, exec, result, envResult, provider, staking>>

\* PrecompileProvider::set_spec
SetSpec ==
    /\ call = NoCall
    /\ \E s \in MonadSpecIds :
        LET r == set_spec(provider, s)
        IN  /\ provider' = r.provider
            /\ call' = [ op |-> "set_spec", spec |-> s, returned |-> r.returned ]
    /\ UNCHANGED <<pc, tx, block, cfg, db, journal, exec, result, envResult, staking>>

\* PrecompileProvider::contains
Contains ==
    /\ call = NoCall
    /\ \E a \in Addresses :
        call' = [ op |-> "contains", address |-> a, returned |-> contains(provider, a) ]
    /\ UNCHANGED <<pc, tx, block, cfg, db, journal, exec, result, envResult, provider, staking>>

\* PrecompileProvider::run
Run ==
    /\ call = NoCall
    /\ \E a \in Addresses, i \in Inputs, g \in GasLimits :
        /\ contains(provider, a) => (provider.precompiles[a].fn \in Executable)
        /\ call' = [ op |-> "run", address |-> a, input |-> i, gas_limit |-> g,
                     returned |-> run(provider, a, i, g) ]
    /\ UNCHANGED <<pc, tx, block, cfg, db, journal, exec, result, envResult, provider, staking>>

\* the caller takes the returned value
Return ==
    /\ call # NoCall
    /\ call' = NoCall
    /\ UNCHANGED <<pc, tx, block, cfg, db, journal, exec, result, envResult, provider, staking>>

NextEnv ==
    \/ Return
    \/ SetCfgSpec
    \/ GasGet
    \/ SetSpec
    \/ Contains
    \/ Run

\* the environment of the handler at rest: one block, one database
InitRest ==
    /\ pc = "validate_env"
    /\ tx = NoTx
    /\ block = [ basefee |-> 0, beneficiary |-> "carol", gas_limit |-> U64Max,
                 prevrandao |-> None, blob_excess_gas |-> None ]
    /\ cfg = new_cfg(MonadEight)
    /\ db \in { d \in Databases : d.balance["alice"] = RichBalance }
    /\ journal = db
    /\ exec = NoExec
    /\ result = NoResult
    /\ envResult = "None"

Init == InitHandler /\ InitEnv

Next == NextHandler

Spec == Init /\ [][Next]_vars

\* the gas schedule and the precompile provider, called one call at a time
\* in any order
InitAtRest == InitRest /\ InitEnv

SpecEnv == InitAtRest /\ [][NextEnv]_vars

----------------------------------------------------------------------------
(* The staking precompile: bytes, ABI helpers, storage keys *)

Zeros(n) == [ i \in 1 .. n |-> 0 ]

\* u64::to_be_bytes, for a value below 2^31
to_be_bytes(value) ==
    Zeros(4) \o << (value \div 16777216) % 256, (value \div 65536) % 256,
                   (value \div 256) % 256, value % 256 >>

\* u64::from_be_bytes, for eight bytes whose value is below 2^31
from_be_bytes(bytes) ==
    bytes[5] * 16777216 + bytes[6] * 65536 + bytes[7] * 256 + bytes[8]

\* U256::from of a small integer, as its 32 big-endian bytes
U256_from(n) == Zeros(24) \o to_be_bytes(n)

\* U256::ZERO
U256_ZERO == Zeros(32)

\* U256::from_limbs: four 64-bit limbs, the least significant first, as the
\* 32 big-endian bytes of the value
U256_from_limbs(limbs) ==
    to_be_bytes(limbs[4]) \o to_be_bytes(limbs[3]) \o to_be_bytes(limbs[2])
      \o to_be_bytes(limbs[1])

\* U256::from_be_bytes(bytes).as_limbs()
as_limbs(bytes) ==
    << from_be_bytes(SubSeq(bytes, 25, 32)), from_be_bytes(SubSeq(bytes, 17, 24)),
       from_be_bytes(SubSeq(bytes, 9, 16)), from_be_bytes(SubSeq(bytes, 1, 8)) >>

\* U256::as_limbs()[0]: the low 64 bits
as_limbs_0(value) == from_be_bytes(SubSeq(value, 25, 32))

\* function selectors of the view methods, as four base-256 digits
selectors_GET_EPOCH == << 117, 121, 145, 168 >>
selectors_GET_PROPOSER_VAL_ID == << 251, 172, 176, 190 >>
selectors_GET_VALIDATOR == << 43, 109, 99, 154 >>
selectors_GET_DELEGATOR == << 87, 60, 28, 224 >>
selectors_GET_WITHDRAWAL_REQUEST == << 86, 250, 32, 69 >>

\* the selectors the module declares and does not dispatch on: the
\* validator-set views, the write methods and the syscalls
selectors_GET_CONSENSUS_VALIDATOR_SET == << 251, 41, 183, 41 >>

selectors_undispatched ==
    { selectors_GET_CONSENSUS_VALIDATOR_SET, << 222, 102, 163, 104 >>, << 124, 176, 116, 223 >>,
      << 79, 214, 96, 80 >>, << 160, 132, 58, 38 >>,
      << 241, 69, 32, 76 >>, << 132, 153, 79, 236 >>, << 92, 244, 21, 20 >>,
      << 174, 210, 238, 115 >>, << 179, 79, 234, 103 >>, << 167, 110, 44, 165 >>,
      << 155, 220, 195, 200 >>, << 228, 179, 48, 59 >>,
      << 29, 78, 159, 2 >>, << 121, 27, 220, 243 >>, << 21, 126, 235, 33 >> }

\* gas costs of the view methods
gas_GET_EPOCH == 16200
gas_GET_PROPOSER_VAL_ID == 100
gas_GET_VALIDATOR == 97200
gas_GET_DELEGATOR == 184900
gas_GET_WITHDRAWAL_REQUEST == 24300

\* Option
Some(v) == [ some |-> TRUE, value |-> v ]
NoneOption == [ some |-> FALSE ]

\* decode_selector read with the least significant digit first
decode_selector_le(input) ==
    IF Len(input) < 4
    THEN NoneOption
    ELSE Some(<< input[4], input[3], input[2], input[1] >>)

\* decode_selector: u32::from_be_bytes of the first four bytes
decode_selector(input) ==
    IF Len(input) < 4
    THEN NoneOption
    ELSE Some(<< input[1], input[2], input[3], input[4] >>)

\* decode_u64 taking its eight bytes one byte early
decode_u64_shifted(input, offset) ==
    IF Len(input) < offset + 32
    THEN NoneOption
    ELSE IF SubSeq(input, offset + 1, offset + 24) # Zeros(24)
    THEN NoneOption
    ELSE Some(from_be_bytes(SubSeq(input, offset + 24, offset + 31)))

\* decode_u64: offset is 0-based
decode_u64(input, offset) ==
    IF Len(input) < offset + 32
    THEN NoneOption
    ELSE IF SubSeq(input, offset + 1, offset + 24) # Zeros(24)
    THEN NoneOption
    ELSE Some(from_be_bytes(SubSeq(input, offset + 25, offset + 32)))

\* decode_u8 keeping the last byte of any word
decode_u8_truncating(input, offset) ==
    IF Len(input) < offset + 32
    THEN NoneOption
    ELSE Some(input[offset + 32])

\* decode_u8
decode_u8(input, offset) ==
    IF Len(input) < offset + 32
    THEN NoneOption
    ELSE IF SubSeq(input, offset + 1, offset + 31) # Zeros(31)
    THEN NoneOption
    ELSE Some(input[offset + 32])

\* decode_address
decode_address(input, offset) ==
    IF Len(input) < offset + 32
    THEN NoneOption
    ELSE IF SubSeq(input, offset + 1, offset + 12) # Zeros(12)
    THEN NoneOption
    ELSE Some(SubSeq(input, offset + 13, offset + 32))

\* encode_bool
encode_bool(value) == Zeros(31) \o << IF value THEN 1 ELSE 0 >>

\* encode_u64
encode_u64(value) == Zeros(24) \o to_be_bytes(value)

\* encode_u256: U256::to_be_bytes
encode_u256(value) == value

\* encode_address
encode_address(value) == Zeros(12) \o value

\* encode_bytes without the padding
encode_bytes_unpadded(value) == encode_u256(U256_from(Len(value))) \o value

\* encode_bytes: length word, data, zero padding to a multiple of 32
encode_bytes(value) ==
    LET padding == (32 - (Len(value) % 32)) % 32
    IN  encode_u256(U256_from(Len(value))) \o value \o Zeros(padding)

\* encode_get_epoch_result
encode_get_epoch_result(epoch, in_delay_period) ==
    encode_u64(epoch) \o encode_bool(in_delay_period)

\* encode_get_proposer_val_id_result
encode_get_proposer_val_id_result(val_id) == encode_u64(val_id)

\* encode_get_validator_result with the offset words the interface text gives
encode_get_validator_result_384(auth_address, flags, stake, accumulated_reward_per_token, commission, unclaimed_rewards, consensus_stake, snapshot_stake, secp_pubkey, bls_pubkey) ==
    encode_address(auth_address) \o encode_u64(flags) \o encode_u256(stake)
      \o encode_u256(accumulated_reward_per_token) \o encode_u256(commission)
      \o encode_u256(unclaimed_rewards) \o encode_u256(consensus_stake)
      \o encode_u256(snapshot_stake)
      \o encode_u256(U256_from(320)) \o encode_u256(U256_from(384))
      \o encode_bytes(secp_pubkey) \o encode_bytes(bls_pubkey)

\* encode_get_validator_result
encode_get_validator_result(auth_address, flags, stake, accumulated_reward_per_token, commission, unclaimed_rewards, consensus_stake, snapshot_stake, secp_pubkey, bls_pubkey) ==
    LET base_offset == 10 * 32
    IN  encode_address(auth_address) \o encode_u64(flags) \o encode_u256(stake)
          \o encode_u256(accumulated_reward_per_token) \o encode_u256(commission)
          \o encode_u256(unclaimed_rewards) \o encode_u256(consensus_stake)
          \o encode_u256(snapshot_stake)
          \o encode_u256(U256_from(base_offset))
          \o encode_u256(U256_from(base_offset + 32 + ((33 + 31) \div 32) * 32))
          \o encode_bytes(secp_pubkey) \o encode_bytes(bls_pubkey)

\* encode_get_delegator_result
encode_get_delegator_result(stake, accumulated_reward_per_token, rewards, delta_stake, next_delta_stake, delta_epoch, next_delta_epoch) ==
    encode_u256(stake) \o encode_u256(accumulated_reward_per_token)
      \o encode_u256(rewards) \o encode_u256(delta_stake)
      \o encode_u256(next_delta_stake) \o encode_u64(delta_epoch)
      \o encode_u64(next_delta_epoch)

\* encode_get_withdrawal_request_result
encode_get_withdrawal_request_result(amount, accumulator, epoch) ==
    encode_u256(amount) \o encode_u256(accumulator) \o encode_u64(epoch)

\* storage namespaces
namespace_CONSENSUS_STAKE == 4
namespace_SNAPSHOT_STAKE == 5
namespace_VAL_EXECUTION == 9
namespace_DELEGATOR == 11
namespace_WITHDRAWAL_REQUEST == 12

\* fixed storage slots of the global state
global_slots_EPOCH == U256_from(1)
global_slots_IN_BOUNDARY == U256_from(2)
global_slots_PROPOSER_VAL_ID == U256_from(4)

\* slot offsets of the validator, delegator and withdrawal records
validator_offsets ==
    [ STAKE |-> 0, ACCUMULATED_REWARD_PER_TOKEN |-> 1, COMMISSION |-> 2, KEYS |-> 3,
      ADDRESS_FLAGS |-> 6, UNCLAIMED_REWARDS |-> 7 ]

delegator_offsets ==
    [ STAKE |-> 0, ACCUMULATED_REWARD_PER_TOKEN |-> 1, REWARDS |-> 2,
      DELTA_STAKE |-> 3, NEXT_DELTA_STAKE |-> 4, EPOCHS |-> 5 ]

withdrawal_offsets == [ AMOUNT |-> 0, ACCUMULATOR |-> 1, EPOCH |-> 2 ]

\* validator_key with the slot in the last byte
validator_key_slot_last(val_id, slot) ==
    << namespace_VAL_EXECUTION >> \o to_be_bytes(val_id) \o Zeros(22) \o << slot >>

\* validator_key: [namespace(1)][val_id(8)][slot(1)][padding(22)]
validator_key(val_id, slot) ==
    << namespace_VAL_EXECUTION >> \o to_be_bytes(val_id) \o << slot >> \o Zeros(22)

\* delegator_key that leaves the slot out
delegator_key_without_slot(val_id, delegator, slot) ==
    << namespace_DELEGATOR >> \o to_be_bytes(val_id) \o delegator \o Zeros(3)

\* delegator_key: [namespace(1)][val_id(8)][address(20)][slot(1)][padding(2)]
delegator_key(val_id, delegator, slot) ==
    << namespace_DELEGATOR >> \o to_be_bytes(val_id) \o delegator \o << slot >>
      \o Zeros(2)

\* withdrawal_key:
\* [namespace(1)][val_id(8)][address(20)][withdrawal_id(1)][slot(1)][padding(1)]
withdrawal_key(val_id, delegator, withdrawal_id, slot) ==
    << namespace_WITHDRAWAL_REQUEST >> \o to_be_bytes(val_id) \o delegator
      \o << withdrawal_id, slot >> \o Zeros(1)

\* consensus_view_key: [namespace(1)][val_id(8)][slot(1)][padding(22)]
consensus_view_key(val_id, slot) ==
    << namespace_CONSENSUS_STAKE >> \o to_be_bytes(val_id) \o << slot >> \o Zeros(22)

\* snapshot_view_key: [namespace(1)][val_id(8)][slot(1)][padding(22)]
snapshot_view_key(val_id, slot) ==
    << namespace_SNAPSHOT_STAKE >> \o to_be_bytes(val_id) \o << slot >> \o Zeros(22)

----------------------------------------------------------------------------
(* The staking precompile: storage reads, handlers, dispatch *)

\* the storage value the journal holds at a key: zero for a slot never written
slot_value(storage, key) ==
    IF \E e \in storage : e.key = key
    THEN (CHOOSE e \in storage : e.key = key).value
    ELSE U256_ZERO

\* JournalTr::sload(address, key): a warm slot is answered by the journal, a
\* cold slot is loaded from the database, which can fail, and becomes warm
sload(j, address, key) ==
    IF key \in j.warm
    THEN [ ok |-> TRUE, data |-> slot_value(j.storage, key), is_cold |-> FALSE,
           journal |-> j ]
    ELSE IF key \in j.failing
    THEN [ ok |-> FALSE, data |-> U256_ZERO, is_cold |-> TRUE, journal |-> j ]
    ELSE [ ok |-> TRUE, data |-> slot_value(j.storage, key), is_cold |-> TRUE,
           journal |-> [ j EXCEPT !.warm = @ \cup {key} ] ]

\* .map(|r| r.data): the loaded data without the cold flag, or the error
StateLoad_data(r) == [ ok |-> r.ok, data |-> r.data, journal |-> r.journal ]

\* read_storage_u256 answering zero for a slot that is already warm
read_storage_u256_warm_zero(j, key) ==
    [ StateLoad_data(sload(j, STAKING_ADDRESS, key))
        EXCEPT !.data = IF key \in j.warm THEN U256_ZERO ELSE @ ]

\* read_storage_u256
read_storage_u256(j, key) == StateLoad_data(sload(j, STAKING_ADDRESS, key))

\* value.as_limbs()[0] of a loaded value
low_limb(r) ==
    [ ok |-> r.ok, data |-> IF r.ok THEN as_limbs_0(r.data) ELSE 0,
      journal |-> r.journal ]

\* read_storage_u64: the low 64 bits of the loaded value
read_storage_u64(j, key) == low_limb(read_storage_u256(j, key))

\* read_storage_u256(context, key)? for each key in order: the reads end at
\* the first load that fails, the slots loaded before it are warm
read_slots(j, keys) ==
    LET failed == { i \in DOMAIN keys : ~read_storage_u256(j, keys[i]).ok }
        loaded == { i \in DOMAIN keys : \A k \in failed : i < k }
    IN  [ ok |-> failed = {},
          values |-> [ i \in DOMAIN keys |-> read_storage_u256(j, keys[i]).data ],
          journal |-> [ j EXCEPT !.warm =
                          UNION ({ @ } \cup { read_storage_u256(j, keys[i]).journal.warm :
                                                i \in loaded }) ] ]

ReadFailed(j) == [ ok |-> FALSE, journal |-> j ]

\* EpochInfo with the delay flag taken from the low 64 bits of the slot
to_epoch_info_low_bits(epoch, in_delay_raw) ==
    IF ~epoch.ok
    THEN ReadFailed(epoch.journal)
    ELSE IF ~in_delay_raw.ok
    THEN ReadFailed(in_delay_raw.journal)
    ELSE [ ok |-> TRUE, journal |-> in_delay_raw.journal,
           epoch |-> epoch.data,
           in_delay_period |-> as_limbs_0(in_delay_raw.data) # 0 ]

\* the EpochInfo of read_epoch_info, from its two loads
to_epoch_info(epoch, in_delay_raw) ==
    IF ~epoch.ok
    THEN ReadFailed(epoch.journal)
    ELSE IF ~in_delay_raw.ok
    THEN ReadFailed(in_delay_raw.journal)
    ELSE [ ok |-> TRUE, journal |-> in_delay_raw.journal,
           epoch |-> epoch.data,
           in_delay_period |-> in_delay_raw.data # U256_ZERO ]

\* read_epoch_info: the boundary slot is loaded after the epoch slot
read_epoch_info(j) ==
    to_epoch_info(
        read_storage_u64(j, global_slots_EPOCH),
        read_storage_u256(read_storage_u64(j, global_slots_EPOCH).journal,
                          global_slots_IN_BOUNDARY))

\* the Validator of read_validator, from its eight loads
to_validator(r) ==
    IF ~r.ok
    THEN ReadFailed(r.journal)
    ELSE [ ok |-> TRUE, journal |-> r.journal,
           stake |-> r.values[1],
           accumulated_reward_per_token |-> r.values[2],
           commission |-> r.values[3],
           secp_pubkey |-> SubSeq(r.values[4] \o r.values[5] \o r.values[6], 1, 33),
           bls_pubkey |-> SubSeq(r.values[4] \o r.values[5] \o r.values[6], 34, 81),
           auth_address |-> SubSeq(r.values[7], 1, 20),
           flags |-> from_be_bytes(SubSeq(r.values[7], 21, 28)),
           unclaimed_rewards |-> r.values[8] ]

\* read_validator
read_validator(j, val_id) ==
    to_validator(read_slots(j,
        << validator_key(val_id, validator_offsets.STAKE),
           validator_key(val_id, validator_offsets.ACCUMULATED_REWARD_PER_TOKEN),
           validator_key(val_id, validator_offsets.COMMISSION),
           validator_key(val_id, validator_offsets.KEYS),
           validator_key(val_id, validator_offsets.KEYS + 1),
           validator_key(val_id, validator_offsets.KEYS + 2),
           validator_key(val_id, validator_offsets.ADDRESS_FLAGS),
           validator_key(val_id, validator_offsets.UNCLAIMED_REWARDS) >>))

\* the Delegator with its epochs taken from the low bytes of the slot
to_delegator_right_aligned(r) ==
    IF ~r.ok
    THEN ReadFailed(r.journal)
    ELSE [ ok |-> TRUE, journal |-> r.journal,
           stake |-> r.values[1],
           accumulated_reward_per_token |-> r.values[2],
           rewards |-> r.values[3],
           delta_stake |-> r.values[4],
           next_delta_stake |-> r.values[5],
           delta_epoch |-> from_be_bytes(SubSeq(r.values[6], 17, 24)),
           next_delta_epoch |-> from_be_bytes(SubSeq(r.values[6], 25, 32)) ]

\* the Delegator of read_delegator, from its six loads
to_delegator(r) ==
    IF ~r.ok
    THEN ReadFailed(r.journal)
    ELSE [ ok |-> TRUE, journal |-> r.journal,
           stake |-> r.values[1],
           accumulated_reward_per_token |-> r.values[2],
           rewards |-> r.values[3],
           delta_stake |-> r.values[4],
           next_delta_stake |-> r.values[5],
           delta_epoch |-> from_be_bytes(SubSeq(r.values[6], 1, 8)),
           next_delta_epoch |-> from_be_bytes(SubSeq(r.values[6], 9, 16)) ]

\* read_delegator
read_delegator(j, val_id, delegator_addr) ==
    to_delegator(read_slots(j,
        << delegator_key(val_id, delegator_addr, delegator_offsets.STAKE),
           delegator_key(val_id, delegator_addr,
                         delegator_offsets.ACCUMULATED_REWARD_PER_TOKEN),
           delegator_key(val_id, delegator_addr, delegator_offsets.REWARDS),
           delegator_key(val_id, delegator_addr, delegator_offsets.DELTA_STAKE),
           delegator_key(val_id, delegator_addr, delegator_offsets.NEXT_DELTA_STAKE),
           delegator_key(val_id, delegator_addr, delegator_offsets.EPOCHS) >>))

\* the WithdrawalRequest of read_withdrawal_request, from its three loads
to_withdrawal_request(r) ==
    IF ~r.ok
    THEN ReadFailed(r.journal)
    ELSE [ ok |-> TRUE, journal |-> r.journal,
           amount |-> r.values[1],
           accumulator |-> r.values[2],
           epoch |-> from_be_bytes(SubSeq(r.values[3], 1, 8)) ]

\* read_withdrawal_request
read_withdrawal_request(j, val_id, delegator_addr, withdrawal_id) ==
    to_withdrawal_request(read_slots(j,
        << withdrawal_key(val_id, delegator_addr, withdrawal_id,
                          withdrawal_offsets.AMOUNT),
           withdrawal_key(val_id, delegator_addr, withdrawal_id,
                          withdrawal_offsets.ACCUMULATOR),
           withdrawal_key(val_id, delegator_addr, withdrawal_id,
                          withdrawal_offsets.EPOCH) >>))

\* what a handler returns, with the journal it leaves:
\* Ok((gas_used, output)) or Err(PrecompileError)
HandlerOk(gas_used, output, j) ==
    [ ok |-> TRUE, gas_used |-> gas_used, output |-> output, error |-> "None",
      journal |-> j ]

HandlerErr(error, j) ==
    [ ok |-> FALSE, gas_used |-> 0, output |-> << >>, error |-> error, journal |-> j ]

\* PrecompileError::is_oog
is_oog(error) == error = "OutOfGas"

\* handle_get_epoch after the gas check: read_epoch_info(context)? and Ok
get_epoch_output(epoch_info) ==
    IF ~epoch_info.ok
    THEN HandlerErr("Other", epoch_info.journal)
    ELSE HandlerOk(gas_GET_EPOCH,
             encode_get_epoch_result(epoch_info.epoch, epoch_info.in_delay_period),
             epoch_info.journal)

\* handle_get_epoch reading the epoch before it looks at the gas
handle_get_epoch_read_first(j, input, gas_limit) ==
    IF gas_limit < gas_GET_EPOCH
    THEN HandlerErr("OutOfGas", read_epoch_info(j).journal)
    ELSE get_epoch_output(read_epoch_info(j))

\* handle_get_epoch
handle_get_epoch(j, input, gas_limit) ==
    IF gas_limit < gas_GET_EPOCH
    THEN HandlerErr("OutOfGas", j)
    ELSE get_epoch_output(read_epoch_info(j))

\* handle_get_proposer_val_id after the gas check
get_proposer_val_id_output(val_id) ==
    IF ~val_id.ok
    THEN HandlerErr("Other", val_id.journal)
    ELSE HandlerOk(gas_GET_PROPOSER_VAL_ID,
             encode_get_proposer_val_id_result(val_id.data), val_id.journal)

\* handle_get_proposer_val_id that neither checks nor charges gas
handle_get_proposer_val_id_free(j, input, gas_limit) ==
    [ get_proposer_val_id_output(read_storage_u64(j, global_slots_PROPOSER_VAL_ID))
        EXCEPT !.gas_used = 0 ]

\* handle_get_proposer_val_id
handle_get_proposer_val_id(j, input, gas_limit) ==
    IF gas_limit < gas_GET_PROPOSER_VAL_ID
    THEN HandlerErr("OutOfGas", j)
    ELSE get_proposer_val_id_output(
             read_storage_u64(j, global_slots_PROPOSER_VAL_ID))

\* handle_get_validator after the three reads
get_validator_output(validator, views) ==
    IF ~views.ok
    THEN HandlerErr("Other", views.journal)
    ELSE HandlerOk(gas_GET_VALIDATOR,
             encode_get_validator_result(
                 validator.auth_address, validator.flags, validator.stake,
                 validator.accumulated_reward_per_token, validator.commission,
                 validator.unclaimed_rewards, views.values[1], views.values[2],
                 validator.secp_pubkey, validator.bls_pubkey),
             views.journal)

\* handle_get_validator after read_validator: the consensus and the snapshot
\* stake are read from the journal read_validator left
get_validator_views(validator, val_id) ==
    IF ~validator.ok
    THEN HandlerErr("Other", validator.journal)
    ELSE get_validator_output(validator,
             read_slots(validator.journal,
                 << consensus_view_key(val_id, 0), snapshot_view_key(val_id, 0) >>))

\* handle_get_validator
handle_get_validator(j, input, gas_limit) ==
    IF gas_limit < gas_GET_VALIDATOR
    THEN HandlerErr("OutOfGas", j)
    ELSE IF ~decode_u64(input, 4).some
    THEN HandlerErr("Other", j)
    ELSE get_validator_views(read_validator(j, decode_u64(input, 4).value),
                             decode_u64(input, 4).value)

\* handle_get_delegator after read_delegator
get_delegator_output(delegator) ==
    IF ~delegator.ok
    THEN HandlerErr("Other", delegator.journal)
    ELSE HandlerOk(gas_GET_DELEGATOR,
             encode_get_delegator_result(
                 delegator.stake, delegator.accumulated_reward_per_token,
                 delegator.rewards, delegator.delta_stake, delegator.next_delta_stake,
                 delegator.delta_epoch, delegator.next_delta_epoch),
             delegator.journal)

\* handle_get_delegator
handle_get_delegator(j, input, gas_limit) ==
    IF gas_limit < gas_GET_DELEGATOR
    THEN HandlerErr("OutOfGas", j)
    ELSE IF ~decode_u64(input, 4).some
    THEN HandlerErr("Other", j)
    ELSE IF ~decode_address(input, 36).some
    THEN HandlerErr("Other", j)
    ELSE get_delegator_output(
             read_delegator(j, decode_u64(input, 4).value,
                            decode_address(input, 36).value))

\* handle_get_withdrawal_request after read_withdrawal_request
get_withdrawal_request_output(request) ==
    IF ~request.ok
    THEN HandlerErr("Other", request.journal)
    ELSE HandlerOk(gas_GET_WITHDRAWAL_REQUEST,
             encode_get_withdrawal_request_result(
                 request.amount, request.accumulator, request.epoch),
             request.journal)

\* handle_get_withdrawal_request
handle_get_withdrawal_request(j, input, gas_limit) ==
    IF gas_limit < gas_GET_WITHDRAWAL_REQUEST
    THEN HandlerErr("OutOfGas", j)
    ELSE IF ~decode_u64(input, 4).some
    THEN HandlerErr("Other", j)
    ELSE IF ~decode_address(input, 36).some
    THEN HandlerErr("Other", j)
    ELSE IF ~decode_u8(input, 68).some
    THEN HandlerErr("Other", j)
    ELSE get_withdrawal_request_output(
             read_withdrawal_request(j, decode_u64(input, 4).value,
                                     decode_address(input, 36).value,
                                     decode_u8(input, 68).value))

\* Gas::new
Gas_new(limit) == [ limit |-> limit, remaining |-> limit ]

\* Gas::record_cost: false, the counters untouched, when the cost exceeds
\* what remains
record_cost(gas, cost) ==
    IF gas.remaining < cost
    THEN [ ok |-> FALSE, gas |-> gas ]
    ELSE [ ok |-> TRUE, gas |-> [ gas EXCEPT !.remaining = @ - cost ] ]

\* Gas::spent
spent(gas) == gas.limit - gas.remaining

\* what run_staking_precompile returns: Ok(None), Ok(Some(result)) or
\* Err(message)
ReturnedNone == [ tag |-> "None", result |-> "None", error |-> "None" ]

ReturnedSome(interpreter_result) ==
    [ tag |-> "Some", result |-> interpreter_result, error |-> "None" ]

ReturnedErr(message) == [ tag |-> "Err", result |-> "None", error |-> message ]

\* the dispatch of run_staking_precompile on the decoded selector
dispatch(j, selector, input, gas_limit) ==
    CASE selector = selectors_GET_EPOCH -> handle_get_epoch(j, input, gas_limit)
      [] selector = selectors_GET_PROPOSER_VAL_ID ->
           handle_get_proposer_val_id(j, input, gas_limit)
      [] selector = selectors_GET_VALIDATOR -> handle_get_validator(j, input, gas_limit)
      [] selector = selectors_GET_DELEGATOR -> handle_get_delegator(j, input, gas_limit)
      [] selector = selectors_GET_WITHDRAWAL_REQUEST ->
           handle_get_withdrawal_request(j, input, gas_limit)
      [] OTHER -> HandlerErr("Other", j)

\* the InterpreterResult of a handler's Ok((gas_used, output)), after
\* record_cost
ok_result(cost, output) ==
    [ result |-> IF cost.ok THEN "Return" ELSE "PrecompileOOG",
      gas |-> cost.gas,
      output |-> output ]

\* the conversion with the whole gas limit recorded as spent on an error
convert_result_spending(handled, gas_limit) ==
    IF handled.ok
    THEN ok_result(record_cost(Gas_new(gas_limit), handled.gas_used), handled.output)
    ELSE [ result |-> IF is_oog(handled.error) THEN "PrecompileOOG"
                                               ELSE "PrecompileError",
           gas |-> record_cost(Gas_new(gas_limit), gas_limit).gas,
           output |-> << >> ]

\* the conversion of the handler's result to an InterpreterResult at the end
\* of run_staking_precompile
convert_result(handled, gas_limit) ==
    IF handled.ok
    THEN ok_result(record_cost(Gas_new(gas_limit), handled.gas_used), handled.output)
    ELSE [ result |-> IF is_oog(handled.error) THEN "PrecompileOOG"
                                               ELSE "PrecompileError",
           gas |-> Gas_new(gas_limit),
           output |-> << >> ]

\* Ok(Some(interpreter_result)) and the journal the handler left
some_result(handled, gas_limit) ==
    [ returned |-> ReturnedSome(convert_result(handled, gas_limit)),
      journal |-> handled.journal ]

\* run_staking_precompile: what it returns and the journal it leaves
run_staking_precompile(j, bytecode_address, input_bytes, gas_limit) ==
    IF bytecode_address # STAKING_ADDRESS
    THEN [ returned |-> ReturnedNone, journal |-> j ]
    ELSE IF ~decode_selector(input_bytes).some
    THEN [ returned |-> ReturnedErr("Invalid input: missing selector"), journal |-> j ]
    ELSE some_result(dispatch(j, decode_selector(input_bytes).value, input_bytes,
                              gas_limit),
                     gas_limit)

\* InstructionResult::is_ok_or_revert
is_ok_or_revert(instruction_result) ==
    instruction_result \in {"Stop", "Return", "SelfDestruct", "Revert"}

\* the gas the calling frame takes back from a call's result: what remains,
\* for a result that is ok or a revert, and nothing otherwise
gas_returned_to_caller(interpreter_result) ==
    IF is_ok_or_revert(interpreter_result.result)
    THEN interpreter_result.gas.remaining
    ELSE 0

----------------------------------------------------------------------------
(* Calls of the staking precompile *)

\* the validator and the delegator the calls ask for
ValId == 1

DelegatorAddress == [ i \in 1 .. 20 |-> 17 ]

WithdrawalId == 0

Entry(key, value) == [ key |-> key, value |-> value ]

\* a staking contract with epoch 100 in the delay period, proposer 7, one
\* validator, one delegator and one withdrawal request; every field differs,
\* and the bytes of the packed slots that belong to no field are not zero
PopulatedStorage ==
    { Entry(global_slots_EPOCH, U256_from(100)),
      Entry(global_slots_IN_BOUNDARY, U256_from(1)),
      Entry(global_slots_PROPOSER_VAL_ID, U256_from(7)),
      Entry(validator_key(ValId, 0), U256_from(11)),
      Entry(validator_key(ValId, 1), U256_from(12)),
      Entry(validator_key(ValId, 2), U256_from(13)),
      Entry(validator_key(ValId, 3), [ i \in 1 .. 32 |-> 100 + i ]),
      Entry(validator_key(ValId, 4), [ i \in 1 .. 32 |-> 140 + i ]),
      Entry(validator_key(ValId, 5), [ i \in 1 .. 32 |-> 180 + i ]),
      Entry(validator_key(ValId, 6),
            [ i \in 1 .. 20 |-> 170 ] \o to_be_bytes(3) \o << 71, 72, 73, 74 >>),
      Entry(validator_key(ValId, 7), U256_from(14)),
      Entry(consensus_view_key(ValId, 0), U256_from(15)),
      Entry(snapshot_view_key(ValId, 0), U256_from(16)),
      Entry(delegator_key(ValId, DelegatorAddress, 0), U256_from(21)),
      Entry(delegator_key(ValId, DelegatorAddress, 1), U256_from(22)),
      Entry(delegator_key(ValId, DelegatorAddress, 2), U256_from(23)),
      Entry(delegator_key(ValId, DelegatorAddress, 3), U256_from(24)),
      Entry(delegator_key(ValId, DelegatorAddress, 4), U256_from(25)),
      Entry(delegator_key(ValId, DelegatorAddress, 5),
            to_be_bytes(5) \o to_be_bytes(6) \o [ i \in 1 .. 16 |-> 40 + i ]),
      Entry(delegator_key(ValId, DelegatorAddress, 6), U256_from(26)),
      Entry(delegator_key(ValId, DelegatorAddress, 7), U256_from(27)),
      Entry(withdrawal_key(ValId, DelegatorAddress, WithdrawalId, 0), U256_from(31)),
      Entry(withdrawal_key(ValId, DelegatorAddress, WithdrawalId, 1), U256_from(32)),
      Entry(withdrawal_key(ValId, DelegatorAddress, WithdrawalId, 2),
            to_be_bytes(9) \o [ i \in 1 .. 24 |-> 60 + i ]) }

\* global slots whose values do not fit 64 bits: the epoch slot has a high
\* bit set above the value 100, the boundary slot is non-zero in its high
\* bits only
WideStorage ==
    { Entry(global_slots_EPOCH, << 1 >> \o Zeros(23) \o to_be_bytes(100)),
      Entry(global_slots_IN_BOUNDARY, << 1 >> \o Zeros(31)),
      Entry(global_slots_PROPOSER_VAL_ID, << 255 >> \o Zeros(23) \o to_be_bytes(7)) }

\* the journal before the first call: a storage, no warm slot, and the slots
\* whose load from the database fails
StakingJournals ==
    { [ storage |-> {}, warm |-> {}, failing |-> {} ],
      [ storage |-> PopulatedStorage, warm |-> {}, failing |-> {} ],
      [ storage |-> WideStorage, warm |-> {}, failing |-> {} ],
      [ storage |-> PopulatedStorage, warm |-> {},
        failing |-> { global_slots_IN_BOUNDARY, validator_key(ValId, 6) } ] }

\* the four-byte selectors of the calls: the five views, the declared ones
\* that are not dispatched, an undeclared one, getEpoch's digits reversed
DispatchedSelectors ==
    { selectors_GET_EPOCH, selectors_GET_PROPOSER_VAL_ID, selectors_GET_VALIDATOR,
      selectors_GET_DELEGATOR, selectors_GET_WITHDRAWAL_REQUEST }

CallSelectors ==
    DispatchedSelectors
      \cup selectors_undispatched
      \cup { << 0, 0, 0, 0 >>, << 168, 145, 121, 117 >> }

ValIdWord == Zeros(24) \o to_be_bytes(ValId)

DelegatorWord == Zeros(12) \o DelegatorAddress

WithdrawalIdWord == Zeros(31) \o << WithdrawalId >>

\* the bytes after the selector: nothing, two stray bytes, a truncated word,
\* words with non-zero high bytes, the well-formed arguments of each view,
\* and well-formed arguments followed by a stray byte
CallArguments ==
    { << >>,
      << 0, 0 >>,
      SubSeq(ValIdWord, 1, 31),
      << 1 >> \o Tail(ValIdWord),
      ValIdWord,
      ValIdWord \o << 1 >> \o Tail(DelegatorWord),
      ValIdWord \o DelegatorWord,
      ValIdWord \o DelegatorWord \o Zeros(30) \o << 1, WithdrawalId >>,
      ValIdWord \o DelegatorWord \o WithdrawalIdWord,
      ValIdWord \o DelegatorWord \o WithdrawalIdWord \o << 9 >> }

\* inputs shorter than a selector, a selector that is not dispatched, and a
\* view selector followed by arguments
StakingInputs ==
    { << >>, << 117 >>, << 117, 121, 145 >> }
      \cup { s \o a : s \in DispatchedSelectors, a \in CallArguments }
      \cup (CallSelectors \ DispatchedSelectors)
      \cup { selectors_GET_CONSENSUS_VALIDATOR_SET \o Zeros(32) }

\* the calls: any input at the staking address, two inputs at ecRecover's
StakingCalls ==
    { [ address |-> STAKING_ADDRESS, input |-> i ] : i \in StakingInputs }
      \cup { [ address |-> 1, input |-> i ] : i \in { << >>, selectors_GET_EPOCH } }

StakingGasLimits ==
    { gas_GET_PROPOSER_VAL_ID - 1, gas_GET_PROPOSER_VAL_ID,
      gas_GET_EPOCH - 1, gas_GET_EPOCH,
      gas_GET_WITHDRAWAL_REQUEST - 1, gas_GET_WITHDRAWAL_REQUEST,
      gas_GET_VALIDATOR - 1, gas_GET_VALIDATOR, 100000,
      gas_GET_DELEGATOR - 1, gas_GET_DELEGATOR, 1000000 }

\* a call frame targets an address: run_staking_precompile is called with the
\* journal as it is
RunStakingPrecompile ==
    /\ call = NoCall
    /\ \E c \in StakingCalls, g \in StakingGasLimits :
        /\ staking' = run_staking_precompile(staking, c.address, c.input, g).journal
        /\ call' = [ op |-> "run_staking_precompile", address |-> c.address,
                     input |-> c.input, gas_limit |-> g, journal |-> staking,
                     returned |->
                         run_staking_precompile(staking, c.address, c.input, g).returned ]
    /\ UNCHANGED <<pc, tx, block, cfg, db, journal, exec, result, envResult, provider>>

NextStaking ==
    \/ Return
    \/ RunStakingPrecompile

InitStaking ==
    /\ InitRest
    /\ provider = new_with_spec(MonadEight)
    /\ call = NoCall
    /\ staking \in StakingJournals

\* run_staking_precompile called one call at a time, with any input and gas
\* limit, on the journal the calls before it left
SpecStaking == InitStaking /\ [][NextStaking]_vars

----------------------------------------------------------------------------
(* The ABI codecs and the storage keys, applied to values *)

\* the uint64 values: the ends of the range and both sides of each byte
\* boundary
U64Values == { 0, 1, 42, 255, 256, 65535, 65536, 16777215, 16777216, 2147483647 }

AddressValues ==
    { Zeros(20), DelegatorAddress, [ i \in 1 .. 20 |-> i ], [ i \in 1 .. 20 |-> 255 ],
      Zeros(19) \o << 1 >>, << 1 >> \o Zeros(19) }

\* the limbs of the U256 values
U256Limbs == { << a, b, c, d >> : a, b, c, d \in { 0, 1, 2147483647 } }

\* the ABI word of a uint8: the value in the last byte
abi_word_u8(value) == Zeros(31) \o << value >>

\* encode_u64 and decode_u64 at offset 0 of what it wrote
RoundTripU64 ==
    /\ call = NoCall
    /\ \E x \in U64Values :
        call' = [ op |-> "u64", value |-> x, encoded |-> encode_u64(x),
                  decoded |-> decode_u64(encode_u64(x), 0) ]
    /\ UNCHANGED <<pc, tx, block, cfg, db, journal, exec, result, envResult, provider, staking>>

\* encode_address and decode_address at offset 0 of what it wrote
RoundTripAddress ==
    /\ call = NoCall
    /\ \E a \in AddressValues :
        call' = [ op |-> "address", value |-> a, encoded |-> encode_address(a),
                  decoded |-> decode_address(encode_address(a), 0) ]
    /\ UNCHANGED <<pc, tx, block, cfg, db, journal, exec, result, envResult, provider, staking>>

\* decode_u8 at offset 0 of the ABI word of a uint8
DecodeU8 ==
    /\ call = NoCall
    /\ \E x \in 0 .. 255 :
        call' = [ op |-> "u8", value |-> x, encoded |-> abi_word_u8(x),
                  decoded |-> decode_u8(abi_word_u8(x), 0) ]
    /\ UNCHANGED <<pc, tx, block, cfg, db, journal, exec, result, envResult, provider, staking>>

\* encode_bool
EncodeBool ==
    /\ call = NoCall
    /\ \E b \in BOOLEAN :
        call' = [ op |-> "bool", value |-> b, encoded |-> encode_bool(b) ]
    /\ UNCHANGED <<pc, tx, block, cfg, db, journal, exec, result, envResult, provider, staking>>

\* encode_u256 of the value with the given limbs
EncodeU256 ==
    /\ call = NoCall
    /\ \E l \in U256Limbs :
        call' = [ op |-> "u256", value |-> l, encoded |-> encode_u256(U256_from_limbs(l)) ]
    /\ UNCHANGED <<pc, tx, block, cfg, db, journal, exec, result, envResult, provider, staking>>

\* what a key is made from: the kind of record, the validator, and for the
\* kinds that have them the delegator and the withdrawal id, then the slot
KeyTuples ==
    { t \in [ kind : { "validator", "consensus", "snapshot", "delegator", "withdrawal" },
              val_id : { 0, 1, 256, 2147483647 },
              delegator : { Zeros(20), DelegatorAddress },
              withdrawal_id : { 0, 255 },
              slot : { 0, 1, 7 } ] :
        /\ (t.kind \in { "validator", "consensus", "snapshot" }) =>
              (t.delegator = Zeros(20))
        /\ (t.kind # "withdrawal") => (t.withdrawal_id = 0) }

\* the key function of each kind
storage_key(t) ==
    CASE t.kind = "validator" -> validator_key(t.val_id, t.slot)
      [] t.kind = "consensus" -> consensus_view_key(t.val_id, t.slot)
      [] t.kind = "snapshot" -> snapshot_view_key(t.val_id, t.slot)
      [] t.kind = "delegator" -> delegator_key(t.val_id, t.delegator, t.slot)
      [] t.kind = "withdrawal" ->
           withdrawal_key(t.val_id, t.delegator, t.withdrawal_id, t.slot)

\* the keys of two records
MakeKeys ==
    /\ call = NoCall
    /\ \E t1 \in KeyTuples, t2 \in KeyTuples :
        call' = [ op |-> "keys", first |-> t1, second |-> t2,
                  first_key |-> storage_key(t1), second_key |-> storage_key(t2) ]
    /\ UNCHANGED <<pc, tx, block, cfg, db, journal, exec, result, envResult, provider, staking>>

NextAbi ==
    \/ Return
    \/ RoundTripU64
    \/ RoundTripAddress
    \/ DecodeU8
    \/ EncodeBool
    \/ EncodeU256
    \/ MakeKeys

\* the codecs and the key functions applied to one value at a time
SpecAbi == InitAtRest /\ [][NextAbi]_vars

----------------------------------------------------------------------------
(* Properties of the handler *)

AfterValidation == pc # "validate_env"

\* C1: a transaction of type 3 (EIP-4844) is rejected by validate_env with
\* Eip4844NotSupported, whatever its other fields, the block and the
\* configuration are, and the rejected transaction leaves every balance,
\* nonce and storage value as the database holds it.
C1_BlobRejectedFirst ==
    (AfterValidation /\ tx.tx_type = Eip4844) =>
        /\ pc = "rejected"
        /\ envResult = "Eip4844NotSupported"
        /\ result.kind = "Eip4844NotSupported"
        /\ journal = db

\* a blob transaction that the field validator would reject for another
\* reason (wrong chain id, no blob hash) has been rejected
C1_Witness ==
    /\ pc = "rejected"
    /\ tx.tx_type = Eip4844
    /\ tx.chain_id # cfg.chain_id
    /\ tx.blob_hashes = 0
    /\ envResult = "Eip4844NotSupported"

SumBalances(bal) == bal["alice"] + bal["bob"] + bal["carol"]

Rewarded == pc \in {"output", "done"}

GasCharge == tx.gas_limit * effective_gas_price(tx, block.basefee)

\* C3 (as claimed): after every successful transaction the caller holds its
\* former balance minus value minus gas_limit * effective_gas_price.
C3_CallerChargedFullLimit ==
    (pc = "done" /\ result.kind = "Success") =>
        (journal.balance[tx.caller]
           = db.balance[tx.caller] - tx.value - GasCharge)

\* C3 (amended): the same, for a caller that is neither the block's
\* beneficiary nor the target of its own transfer.
C3_CallerChargedFullLimitAmended ==
    (/\ pc = "done"
     /\ result.kind = "Success"
     /\ tx.caller # block.beneficiary
     /\ tx.caller # tx.target) =>
        (journal.balance[tx.caller]
           = db.balance[tx.caller] - tx.value - GasCharge)

\* a successful transfer with unused gas, a positive price and a value
C3_Witness ==
    /\ pc = "done"
    /\ result.kind = "Success"
    /\ tx.caller # block.beneficiary
    /\ tx.caller # tx.target
    /\ exec.spent < tx.gas_limit
    /\ exec.accumulated > 0
    /\ tx.value > 0
    /\ GasCharge > 0

AfterRefund == pc \in {"reimburse_caller", "reward_beneficiary", "output", "done", "panicked"}

\* C4: once the refund step has run the refund counter of the execution
\* result is 0, whatever the interpreter accumulated and whatever EIP-7702
\* refund was passed, and the reported gas_refunded is 0.
C4_RefundCounterZero ==
    /\ AfterRefund => (exec.refunded = 0)
    /\ (pc = "done") => (result.gas_refunded = 0 /\ result.gas_used = exec.spent)

\* a successful transaction whose interpreter had accumulated a refund
C4_Witness ==
    /\ pc = "done"
    /\ result.kind = "Success"
    /\ exec.accumulated > 0
    /\ result.gas_refunded = 0

HeaderVariants(b) ==
    { [ b EXCEPT !.prevrandao = p, !.blob_excess_gas = e ] :
        p \in {None, 0}, e \in {None, 0} }

\* C6: for a non-blob transaction validate_env returns what the transaction
\* field validator returns at PRAGUE, and the same for every choice of the
\* block's prevrandao and excess blob gas, absent or present.
C6_HeaderFieldsNotChecked ==
    (AfterValidation /\ tx.tx_type # Eip4844) =>
        /\ envResult = validate_tx_env(tx, block, cfg, PRAGUE)
        /\ \A b2 \in HeaderVariants(block) : validate_env(tx, b2, cfg) = envResult

\* a transaction admitted although the block has neither prevrandao nor
\* excess blob gas
C6_Witness ==
    /\ AfterValidation
    /\ tx.tx_type # Eip4844
    /\ block.prevrandao = None
    /\ block.blob_excess_gas = None
    /\ envResult = "Ok"

----------------------------------------------------------------------------
(* Properties of the gas schedule and of the precompiles *)

Overridden ==
    { "cold_storage_cost", "cold_storage_additional_cost",
      "cold_account_additional_cost" }

ColdOverridesApplied(params) ==
    /\ params["cold_storage_cost"] = 8100
    /\ params["cold_storage_additional_cost"] = 8000
    /\ params["cold_account_additional_cost"] = 10000

\* C7: the schedule of MonadEight has cold_storage_cost 8100,
\* cold_storage_additional_cost 8000, cold_account_additional_cost 10000 and
\* warm_storage_read_cost 100, every other identifier has its value of the
\* base schedule at PRAGUE, and a lookup returns the schedule's value.
C7_MonadEightSchedule ==
    (cfg.spec = MonadEight) =>
        /\ ColdOverridesApplied(cfg.gas_params)
        /\ cfg.gas_params["warm_storage_read_cost"] = 100
        /\ \A id \in GasIds \ Overridden : cfg.gas_params[id] = new_spec(PRAGUE)[id]
        /\ (call.op = "gas_get") => (call.returned = cfg.gas_params[call.id])

\* the cold account surcharge has been looked up at MonadEight
C7_Witness ==
    /\ cfg.spec = MonadEight
    /\ call.op = "gas_get"
    /\ call.id = "cold_account_additional_cost"
    /\ call.returned = 10000

\* C8 (as claimed): the three overrides are in the schedule of every chain
\* hardfork from MonadEight on, the guard MonadEight.is_enabled_in(H) being
\* true exactly when H >= MonadEight.
C8_OverridesFromMonadEightOn ==
    /\ (cfg.spec >= MonadEight) => ColdOverridesApplied(cfg.gas_params)
    /\ is_enabled_in(MonadEight, cfg.spec) <=> (cfg.spec >= MonadEight)

Repriced ==
    [ a \in {1, 6, 7, 8, 9, 10} |->
        CASE a = 1 -> "monad_ecrecover_run"
          [] a = 6 -> "monad_ec_add_run"
          [] a = 7 -> "monad_ec_mul_run"
          [] a = 8 -> "monad_ec_pairing_run"
          [] a = 9 -> "monad_blake2f_run"
          [] a = 10 -> "monad_point_evaluation_run" ]

\* C9: the provider's table, at every hardfork it was built for, contains
\* 0x01..0x11 and 0x0100; 0x01, 0x06..0x0A hold the chain's repriced run
\* functions and 0x0100 holds P256VERIFY; contains returns membership.
C9_TableContents ==
    /\ \A a \in (1 .. 17) \cup {256} : contains(provider, a)
    /\ \A a \in DOMAIN Repriced : provider.precompiles[a].fn = Repriced[a]
    /\ provider.precompiles[256].fn = "p256_verify"
    /\ \A a \in DOMAIN provider.precompiles : provider.precompiles[a].address = a
    /\ (call.op = "contains" /\ call.address \in (1 .. 17) \cup {256}) => call.returned

\* contains(0x0100) has answered for a table rebuilt at a later hardfork
C9_Witness ==
    /\ provider.spec # MonadEight
    /\ call.op = "contains"
    /\ call.address = 256
    /\ call.returned

TableGas(address, input) ==
    CASE address = 1 -> 6000
      [] address = 6 -> 300
      [] address = 7 -> 30000
      [] address = 8 -> 225000 + 170000 * (input.len \div 192)
      [] address = 9 -> 2 * input.rounds
      [] address = 10 -> 200000
      [] address = 256 -> 3450

\* C10: a call to a repriced precompile (or to P256VERIFY) that returns Ok
\* reports the table's gas as gas_used, whatever the gas limit: 6000, 300,
\* 30000, 225000 + 170000 per pair, 2 per round, 200000, 3450.
C10_RepricedGasUsed ==
    (/\ call.op = "run"
     /\ call.address \in {1, 6, 7, 8, 9, 10, 256}
     /\ call.returned.kind = "Ok") =>
        (call.returned.gas_used = TableGas(call.address, call.input))

\* two pairs have been checked with gas to spare
C10_Witness ==
    /\ call.op = "run"
    /\ call.address = 8
    /\ call.input.len = 384
    /\ call.gas_limit > 565000
    /\ call.returned.kind = "Ok"
    /\ call.returned.gas_used = 565000

\* the gas a call to ecRecover, blake2f or the KZG point evaluation requires
RequiredGas(address, input) ==
    CASE address = 1 -> MONAD_ECRECOVER_GAS
      [] address = 9 -> MONAD_BLAKE2F_ROUND_GAS * input.rounds
      [] address = 10 -> MONAD_POINT_EVALUATION_GAS

OutOfGasCase ==
    /\ call.op = "run"
    /\ \/ call.address \in {1, 10}
       \/ call.address = 9 /\ call.input.len = 213

\* C11: ecRecover, blake2f with a 213-byte input and the KZG point
\* evaluation return the OutOfGas error, with no gas_used and no output,
\* exactly when the required gas (6000, 2 per round, 200000) exceeds the gas
\* limit; a gas limit equal to the required gas is never out of gas.
C11_OutOfGasExactlyAboveLimit ==
    OutOfGasCase =>
        /\ (call.returned = Err("OutOfGas"))
              <=> (RequiredGas(call.address, call.input) > call.gas_limit)
        /\ (call.returned.error = "OutOfGas") =>
              (call.returned.gas_used = None /\ call.returned.out_len = None)

\* ecRecover has run with a gas limit of exactly 6000 and was not out of gas
C11_Witness ==
    /\ call.op = "run"
    /\ call.address = 1
    /\ call.gas_limit = MONAD_ECRECOVER_GAS
    /\ call.returned.kind = "Ok"

\* C12: set_spec(s) answers true exactly when s differs from the stored
\* spec; after the call the stored spec is s and the table is the one
\* new_with_spec builds for s; a call that answers false leaves the provider
\* as it was, so a second set_spec with the same spec answers false.
C12_SetSpecRebuildsOnChange ==
    [][ (call.op = "none" /\ call'.op = "set_spec") =>
          /\ call'.returned = (call'.spec # provider.spec)
          /\ provider'.spec = call'.spec
          /\ provider'.precompiles = new_with_spec(call'.spec).precompiles
          /\ (~call'.returned) => (provider' = provider)
          /\ set_spec(provider', call'.spec).returned = FALSE
          /\ set_spec(provider', call'.spec).provider = provider' ]_vars

\* set_spec was called again with the later hardfork the provider already
\* holds, and answered false
C12_Witness ==
    /\ call.op = "set_spec"
    /\ call.spec # MonadEight
    /\ provider.spec = call.spec
    /\ ~call.returned

----------------------------------------------------------------------------
(* Properties of the staking precompile *)

\* C13 (as claimed): a call to the staking address 0x1000 that reaches the
\* provider's run is handled by the staking precompile, so run does not
\* answer None for it.
C13_StakingRoutedFirst ==
    (call.op = "run" /\ call.address = STAKING_ADDRESS) =>
        (call.returned.kind # "None")

StakingCall == call.op = "run_staking_precompile" /\ call.address = STAKING_ADDRESS

Handled == StakingCall /\ call.returned.tag = "Some"

\* C14 (as claimed): every call of the staking precompile at 0x1000 returns
\* an interpreter result that is Return, PrecompileOOG or PrecompileError,
\* and never an error of the provider.
C14_ThreeOutcomes ==
    StakingCall =>
        /\ call.returned.tag = "Some"
        /\ call.returned.result.result \in {"Return", "PrecompileOOG", "PrecompileError"}

\* C15 (as claimed): a call whose input is shorter than 4 bytes returns the
\* interpreter result PrecompileError with an empty output.
C15_ShortInputIsPrecompileError ==
    (StakingCall /\ Len(call.input) < 4) =>
        /\ call.returned.tag = "Some"
        /\ call.returned.result.result = "PrecompileError"
        /\ call.returned.result.output = << >>

\* the five selectors 0x757991a8, 0xfbacb0be, 0x2b6d639a, 0x573c1ce0 and
\* 0x56fa2045, most significant byte first
ViewSelectors ==
    { << 117, 121, 145, 168 >>, << 251, 172, 176, 190 >>, << 43, 109, 99, 154 >>,
      << 87, 60, 28, 224 >>, << 86, 250, 32, 69 >> }

\* the arguments every view accepts are in the input: a uint64, an address
\* and a uint8 word with zero high bytes
WellFormedArguments(input) ==
    /\ Len(input) >= 100
    /\ SubSeq(input, 5, 28) = Zeros(24)
    /\ SubSeq(input, 37, 48) = Zeros(12)
    /\ SubSeq(input, 69, 99) = Zeros(31)

\* C16: the call is dispatched on its first four bytes read big-endian; a
\* selector outside the five view selectors gives PrecompileError with an
\* empty output whatever the gas limit, and each of the five, with gas for
\* the dearest view, well-formed arguments and a database that answers,
\* gives Return.
C16_FiveSelectorsOnly ==
    (StakingCall /\ Len(call.input) >= 4) =>
        /\ call.returned.tag = "Some"
        /\ (SubSeq(call.input, 1, 4) \notin ViewSelectors) =>
              /\ call.returned.result.result = "PrecompileError"
              /\ call.returned.result.output = << >>
        /\ (/\ SubSeq(call.input, 1, 4) \in ViewSelectors
            /\ call.gas_limit >= 184900
            /\ WellFormedArguments(call.input)
            /\ call.journal.failing = {}) =>
              (call.returned.result.result = "Return")

\* delegate(uint64), 0x84994fec, was called with all the gas of the model
C16_Witness ==
    /\ StakingCall
    /\ call.input = << 132, 153, 79, 236 >>
    /\ call.gas_limit = 1000000
    /\ call.returned.result.result = "PrecompileError"

\* the fixed gas of the five views
ViewGas(selector) ==
    CASE selector = << 117, 121, 145, 168 >> -> 16200
      [] selector = << 251, 172, 176, 190 >> -> 100
      [] selector = << 43, 109, 99, 154 >> -> 97200
      [] selector = << 87, 60, 28, 224 >> -> 184900
      [] selector = << 86, 250, 32, 69 >> -> 24300

\* C17: a view called with less than its fixed gas gives PrecompileOOG; with
\* at least its fixed gas, well-formed arguments and a database that answers
\* it gives Return with exactly the fixed gas spent, whatever the length of
\* the input and whether the slots were warm or cold.
C17_FixedGas ==
    (Handled /\ SubSeq(call.input, 1, 4) \in ViewSelectors) =>
        LET G == ViewGas(SubSeq(call.input, 1, 4))
        IN  /\ (call.gas_limit < G) =>
                  (call.returned.result.result = "PrecompileOOG")
            /\ (/\ call.gas_limit >= G
                /\ WellFormedArguments(call.input)
                /\ call.journal.failing = {}) =>
                  /\ call.returned.result.result = "Return"
                  /\ spent(call.returned.result.gas) = G
                  /\ call.returned.result.gas.remaining = call.gas_limit - G

\* getEpoch returned with exactly 16200 gas, all of it spent, its input
\* longer than the selector and the epoch slot warm before the call
C17_Witness ==
    /\ Handled
    /\ SubSeq(call.input, 1, 4) = << 117, 121, 145, 168 >>
    /\ Len(call.input) > 4
    /\ call.gas_limit = 16200
    /\ global_slots_EPOCH \in call.journal.warm
    /\ call.returned.result.result = "Return"
    /\ call.returned.result.gas.remaining = 0

Failed == Handled /\ call.returned.result.result \in {"PrecompileOOG", "PrecompileError"}

\* C18 (as claimed): a result that is PrecompileOOG or PrecompileError has an
\* empty output and no gas left in it: the whole gas limit is spent.
C18_FailureSpendsGasInResult ==
    Failed =>
        /\ call.returned.result.output = << >>
        /\ call.returned.result.gas.remaining = 0
        /\ spent(call.returned.result.gas) = call.gas_limit

\* C18 (amended): a result that is PrecompileOOG or PrecompileError has an
\* empty output and carries Gas::new(gas_limit), nothing recorded as spent;
\* the calling frame takes back no gas from it, a result that is neither ok
\* nor a revert giving nothing back.
C18_FailureGivesNoGasBack ==
    Failed =>
        /\ call.returned.result.output = << >>
        /\ call.returned.result.gas.remaining = call.gas_limit
        /\ spent(call.returned.result.gas) = 0
        /\ gas_returned_to_caller(call.returned.result) = 0

\* getDelegator was called with a gas limit of 100000 and was out of gas
C18_Witness ==
    /\ Handled
    /\ SubSeq(call.input, 1, 4) = << 87, 60, 28, 224 >>
    /\ call.gas_limit = 100000
    /\ call.returned.result.result = "PrecompileOOG"

\* the k-th 32-byte word of an output
Word(output, k) == SubSeq(output, 32 * (k - 1) + 1, 32 * k)

GetEpochReturned ==
    /\ Handled
    /\ SubSeq(call.input, 1, 4) = << 117, 121, 145, 168 >>
    /\ call.returned.result.result = "Return"

\* C19: getEpoch returns 64 bytes: word 0 holds the low 64 bits of the slot
\* at key 1 right-aligned, word 1 is 31 zero bytes and then 1 when the slot
\* at key 2 is non-zero anywhere in its 256 bits and 0 otherwise; 16200 gas
\* is spent.
C19_GetEpochOutput ==
    GetEpochReturned =>
        LET epoch_slot == slot_value(call.journal.storage, Zeros(31) \o << 1 >>)
            boundary_slot == slot_value(call.journal.storage, Zeros(31) \o << 2 >>)
            output == call.returned.result.output
        IN  /\ Len(output) = 64
            /\ Word(output, 1) = Zeros(24) \o SubSeq(epoch_slot, 25, 32)
            /\ Word(output, 2)
                 = Zeros(31) \o << IF boundary_slot = Zeros(32) THEN 0 ELSE 1 >>
            /\ spent(call.returned.result.gas) = 16200

\* with EPOCH = 100 and IN_BOUNDARY = 1 in the journal, word 0 is 100 and the
\* last byte is 1
C19_Witness ==
    /\ GetEpochReturned
    /\ call.input = << 117, 121, 145, 168 >>
    /\ slot_value(call.journal.storage, global_slots_EPOCH) = U256_from(100)
    /\ slot_value(call.journal.storage, global_slots_IN_BOUNDARY) = U256_from(1)
    /\ Word(call.returned.result.output, 1) = U256_from(100)
    /\ call.returned.result.output[64] = 1

GetValidatorReturned ==
    /\ Handled
    /\ SubSeq(call.input, 1, 4) = << 43, 109, 99, 154 >>
    /\ call.returned.result.result = "Return"

\* the storage value of the validator's slot at an offset
ValidatorSlot(offset) == slot_value(call.journal.storage, validator_key(ValId, offset))

\* the first eight words of getValidator's output: auth_address, flags,
\* stake, accumulated_reward_per_token, commission, unclaimed_rewards,
\* consensus_stake, snapshot_stake
FixedFieldsInOrder(output) ==
    /\ Word(output, 1) = Zeros(12) \o SubSeq(ValidatorSlot(6), 1, 20)
    /\ Word(output, 2) = Zeros(24) \o SubSeq(ValidatorSlot(6), 21, 28)
    /\ Word(output, 3) = ValidatorSlot(0)
    /\ Word(output, 4) = ValidatorSlot(1)
    /\ Word(output, 5) = ValidatorSlot(2)
    /\ Word(output, 6) = ValidatorSlot(7)
    /\ Word(output, 7) = slot_value(call.journal.storage, consensus_view_key(ValId, 0))
    /\ Word(output, 8) = slot_value(call.journal.storage, snapshot_view_key(ValId, 0))

\* the dynamic-bytes entry at a byte offset of the output: a length word,
\* the data, zero padding to a multiple of 32
DynamicEntry(output, offset, data) ==
    LET padded == ((Len(data) + 31) \div 32) * 32
    IN  /\ SubSeq(output, offset + 1, offset + 32) = U256_from(Len(data))
        /\ SubSeq(output, offset + 33, offset + 32 + Len(data)) = data
        /\ SubSeq(output, offset + 33 + Len(data), offset + 32 + padded)
             = Zeros(padded - Len(data))

\* the 33 bytes of the secp key and the 48 bytes of the bls key, packed in
\* the validator's slots 3, 4 and 5
SecpPubkey == SubSeq(ValidatorSlot(3) \o ValidatorSlot(4), 1, 33)

BlsPubkey == SubSeq(ValidatorSlot(4) \o ValidatorSlot(5), 2, 49)

\* C20 (as claimed): getValidator's output starts with the eight fixed
\* fields in order and the two offset words 320 and 384, followed by the two
\* dynamic-bytes entries.
C20_ValidatorOffsets320And384 ==
    GetValidatorReturned =>
        LET output == call.returned.result.output
        IN  /\ FixedFieldsInOrder(output)
            /\ Word(output, 9) = U256_from(320)
            /\ Word(output, 10) = U256_from(384)
            /\ DynamicEntry(output, 320, SecpPubkey)
            /\ DynamicEntry(output, 384, BlsPubkey)

\* C20 (amended): getValidator's output starts with the eight fixed fields
\* in order and the two offset words 320 and 416, followed by the secp entry
\* at byte 320 (length 33, data, 31 zero bytes) and the bls entry at byte 416
\* (length 48, data, 16 zero bytes): 512 bytes in all.
C20_ValidatorOffsets320And416 ==
    GetValidatorReturned =>
        LET output == call.returned.result.output
        IN  /\ FixedFieldsInOrder(output)
            /\ Word(output, 9) = U256_from(320)
            /\ Word(output, 10) = U256_from(416)
            /\ DynamicEntry(output, 320, SecpPubkey)
            /\ DynamicEntry(output, 416, BlsPubkey)
            /\ Len(output) = 512

\* getValidator returned the validator of the populated contract
C20_Witness ==
    /\ GetValidatorReturned
    /\ call.journal.storage = PopulatedStorage
    /\ Word(call.returned.result.output, 3) = U256_from(11)
    /\ Word(call.returned.result.output, 10) = U256_from(416)

----------------------------------------------------------------------------
(* Properties of the ABI codecs and the storage keys *)

\* the value of a 32-byte word whose first 28 bytes are zero
WordValue(word) == word[29] * 16777216 + word[30] * 65536 + word[31] * 256 + word[32]

C22_KeysInjective ==
    (call.op = "keys") =>
        /\ (call.first # call.second) => (call.first_key # call.second_key)
        /\ (call.first.kind # call.second.kind) => (call.first_key # call.second_key)
        /\ \A g \in 1 .. 4 : call.first_key # Zeros(31) \o << g >>

\* the keys of two slots of the same delegator were made
C22_Witness ==
    /\ call.op = "keys"
    /\ call.first.kind = "delegator"
    /\ call.second.kind = "delegator"
    /\ call.first.val_id = call.second.val_id
    /\ call.first.delegator = call.second.delegator
    /\ call.first.slot # call.second.slot
    /\ call.first_key # call.second_key

\* the eight big-endian bytes of a val_id below 2^31
ValIdBytes(val_id) ==
    << 0, 0, 0, 0, (val_id \div 16777216) % 256, (val_id \div 65536) % 256,
       (val_id \div 256) % 256, val_id % 256 >>

\* the namespace byte the layout gives each kind
NamespaceByte(kind) ==
    CASE kind = "validator" -> 9
      [] kind = "consensus" -> 4
      [] kind = "snapshot" -> 5
      [] kind = "delegator" -> 11
      [] kind = "withdrawal" -> 12

\* C26: a key is 32 bytes: the namespace byte, the big-endian val_id in
\* bytes 1 to 8, then the slot at byte 9 (validator 0x09, consensus 0x04,
\* snapshot 0x05), or the address in bytes 9 to 28 and the slot at byte 29
\* (delegator 0x0B), or the address, the withdrawal id at byte 29 and the
\* slot at byte 30 (withdrawal 0x0C); all other bytes are zero.
C26_KeyLayout ==
    (call.op = "keys") =>
        /\ Len(call.first_key) = 32
        /\ call.first_key[1] = NamespaceByte(call.first.kind)
        /\ SubSeq(call.first_key, 2, 9) = ValIdBytes(call.first.val_id)
        /\ (call.first.kind \in { "validator", "consensus", "snapshot" }) =>
              SubSeq(call.first_key, 10, 32) = << call.first.slot >> \o Zeros(22)
        /\ (call.first.kind = "delegator") =>
              SubSeq(call.first_key, 10, 32)
                = call.first.delegator \o << call.first.slot >> \o Zeros(2)
        /\ (call.first.kind = "withdrawal") =>
              SubSeq(call.first_key, 10, 32)
                = call.first.delegator
                    \o << call.first.withdrawal_id, call.first.slot >> \o Zeros(1)

\* the key of slot 7 of validator 256 was made: val_id bytes 00..01 00, the
\* slot at byte 9
C26_Witness ==
    /\ call.op = "keys"
    /\ call.first.kind = "validator"
    /\ call.first.val_id = 256
    /\ call.first.slot = 7
    /\ call.first_key[8] = 1
    /\ call.first_key[10] = 7

----------------------------------------------------------------------------
(* Properties of the staking views: effects, arguments, records *)

\* C23: a staking call changes no storage value and nothing of any account:
\* all it does to the journal is load slots of 0x1000, which become warm; and
\* what it returns depends on the input, the gas limit and the storage only,
\* not on the calls made before it.
C23_ReadOnly ==
    [][ (call.op = "none" /\ call'.op = "run_staking_precompile") =>
          /\ staking'.storage = staking.storage
          /\ staking'.failing = staking.failing
          /\ staking.warm \subseteq staking'.warm
          /\ journal' = journal
          /\ db' = db
          /\ call'.returned
               = run_staking_precompile([ staking EXCEPT !.warm = {} ], call'.address,
                                        call'.input, call'.gas_limit).returned ]_vars

\* getValidator returned on a journal that earlier calls had warmed, and
\* loaded further slots
C23_Witness ==
    /\ GetValidatorReturned
    /\ call.journal.storage = PopulatedStorage
    /\ call.journal.warm # {}
    /\ staking.warm # call.journal.warm
    /\ staking.storage = PopulatedStorage

\* the number of argument words of the views that take arguments
ArgumentWords(selector) ==
    CASE selector = << 43, 109, 99, 154 >> -> 1
      [] selector = << 87, 60, 28, 224 >> -> 2
      [] selector = << 86, 250, 32, 69 >> -> 3

\* an argument word is missing or cut, or has a non-zero byte above its
\* value: bytes 0 to 23 of the uint64 at offset 4, bytes 0 to 11 of the
\* address at offset 36, bytes 0 to 30 of the uint8 at offset 68
Malformed(input, words) ==
    \/ Len(input) < 4 + 32 * words
    \/ SubSeq(input, 5, 28) # Zeros(24)
    \/ (words >= 2 /\ SubSeq(input, 37, 48) # Zeros(12))
    \/ (words >= 3 /\ SubSeq(input, 69, 99) # Zeros(31))

TakesArguments ==
    /\ Handled
    /\ SubSeq(call.input, 1, 4)
         \in { << 43, 109, 99, 154 >>, << 87, 60, 28, 224 >>, << 86, 250, 32, 69 >> }

\* C24: with gas for the view, getValidator, getDelegator and
\* getWithdrawalRequest give PrecompileError when an argument word at offset
\* 4 + 32 i is missing, cut or has a non-zero high byte, and otherwise return
\* what they return for the input cut after the last argument word.
C24_ArgumentsChecked ==
    (TakesArguments /\ call.gas_limit >= ViewGas(SubSeq(call.input, 1, 4))) =>
        LET words == ArgumentWords(SubSeq(call.input, 1, 4))
        IN  /\ Malformed(call.input, words) =>
                  /\ call.returned.result.result = "PrecompileError"
                  /\ call.returned.result.output = << >>
            /\ (~Malformed(call.input, words)) =>
                  /\ call.returned
                       = run_staking_precompile(call.journal, call.address,
                             SubSeq(call.input, 1, 4 + 32 * words),
                             call.gas_limit).returned
                  /\ (call.journal.failing = {}) =>
                        (call.returned.result.result = "Return")

\* getWithdrawalRequest was called with a withdrawal id word whose byte 30 is
\* 1, with gas for the view
C24_Witness ==
    /\ TakesArguments
    /\ SubSeq(call.input, 1, 4) = << 86, 250, 32, 69 >>
    /\ Len(call.input) = 100
    /\ call.input[99] = 1
    /\ call.gas_limit >= 24300
    /\ call.returned.result.result = "PrecompileError"

\* the storage value of the delegator's and of the withdrawal request's slot
\* at an offset
DelegatorSlot(offset) ==
    slot_value(call.journal.storage, delegator_key(ValId, DelegatorAddress, offset))

WithdrawalSlot(offset) ==
    slot_value(call.journal.storage,
               withdrawal_key(ValId, DelegatorAddress, WithdrawalId, offset))

ViewReturned(selector) ==
    /\ Handled
    /\ SubSeq(call.input, 1, 4) = selector
    /\ call.returned.result.result = "Return"

\* C25: the outputs hold the fields taken from the big-endian bytes of the
\* slots as the layout states and nothing else of those slots: the secp key
\* is bytes 0 to 32 and the bls key bytes 33 to 80 of slots 3, 4, 5, the
\* auth address bytes 0 to 19 and the flags bytes 20 to 27 of slot 6; the
\* delegator's epochs are bytes 0 to 7 and 8 to 15 of slot 5; the withdrawal
\* request's epoch is bytes 0 to 7 of slot 2.
C25_FieldsFromSlotBytes ==
    /\ ViewReturned(<< 43, 109, 99, 154 >>) =>
          /\ SubSeq(call.returned.result.output, 1, 64)
               = Zeros(12) \o SubSeq(ValidatorSlot(6), 1, 20)
                   \o Zeros(24) \o SubSeq(ValidatorSlot(6), 21, 28)
          /\ SubSeq(call.returned.result.output, 353, 385)
               = SubSeq(ValidatorSlot(3) \o ValidatorSlot(4), 1, 33)
          /\ SubSeq(call.returned.result.output, 449, 496)
               = SubSeq(ValidatorSlot(4) \o ValidatorSlot(5), 2, 49)
          /\ SubSeq(call.returned.result.output, 497, 512) = Zeros(16)
    /\ ViewReturned(<< 87, 60, 28, 224 >>) =>
          (call.returned.result.output
             = DelegatorSlot(0) \o DelegatorSlot(1) \o DelegatorSlot(2)
                 \o DelegatorSlot(3) \o DelegatorSlot(4)
                 \o Zeros(24) \o SubSeq(DelegatorSlot(5), 1, 8)
                 \o Zeros(24) \o SubSeq(DelegatorSlot(5), 9, 16))
    /\ ViewReturned(<< 86, 250, 32, 69 >>) =>
          (call.returned.result.output
             = WithdrawalSlot(0) \o WithdrawalSlot(1)
                 \o Zeros(24) \o SubSeq(WithdrawalSlot(2), 1, 8))

\* getDelegator returned the epochs 5 and 6 from a slot whose other bytes are
\* not zero, the delegator having a slot 6 as well
C25_Witness ==
    /\ ViewReturned(<< 87, 60, 28, 224 >>)
    /\ DelegatorSlot(5)[17] # 0
    /\ DelegatorSlot(6) # U256_ZERO
    /\ SubSeq(call.returned.result.output, 161, 224) = U256_from(5) \o U256_from(6)

----------------------------------------------------------------------------
(* Further properties of the precompiles and of the reward *)

\* C27: blake2f answers Blake2WrongLength for an input that is not 213 bytes
\* long whatever the gas limit; otherwise OutOfGas when twice the rounds
\* exceed the gas limit, whatever the final-block flag; otherwise
\* Blake2WrongFinalIndicatorFlag for a flag other than 0 and 1; otherwise it
\* succeeds with twice the rounds as gas and 64 bytes of output.
C27_Blake2fFailureOrder ==
    (call.op = "run" /\ call.address = 9) =>
        (call.returned
           = IF call.input.len # 213
             THEN Err("Blake2WrongLength")
             ELSE IF 2 * call.input.rounds > call.gas_limit
             THEN Err("OutOfGas")
             ELSE IF call.input.flag \notin {0, 1}
             THEN Err("Blake2WrongFinalIndicatorFlag")
             ELSE Ok(2 * call.input.rounds, 64))

\* blake2f ran on 213 bytes with two rounds, a gas limit of 3 and the flag 2
\* and was out of gas
C27_Witness ==
    /\ call.op = "run"
    /\ call.address = 9
    /\ call.input.len = 213
    /\ call.input.rounds = 2
    /\ call.input.flag = 2
    /\ call.gas_limit = 3
    /\ call.returned.error = "OutOfGas"

\* C28: in getValidator's output the first offset word is 320, where the
\* secp length word stands, and the second is 320 + 32 + 64, where the bls
\* length word stands; the length words are 33 and 48, the 31 and the 16
\* bytes after the data are zero, and the output is 512 bytes long.
C28_OffsetsMatchData ==
    GetValidatorReturned =>
        LET output == call.returned.result.output
            first == WordValue(Word(output, 9))
            second == WordValue(Word(output, 10))
        IN  /\ SubSeq(output, 257, 284) = Zeros(28)
            /\ SubSeq(output, 289, 316) = Zeros(28)
            /\ first = 320
            /\ second = first + 32 + 64
            /\ SubSeq(output, first + 1, first + 32) = Zeros(31) \o << 33 >>
            /\ SubSeq(output, first + 32 + 33 + 1, second) = Zeros(31)
            /\ SubSeq(output, second + 1, second + 32) = Zeros(31) \o << 48 >>
            /\ SubSeq(output, second + 32 + 48 + 1, Len(output)) = Zeros(16)
            /\ Len(output) = second + 32 + 64
            /\ Len(output) = 512

\* getValidator returned 512 bytes with the length word 48 at byte 416
C28_Witness ==
    /\ GetValidatorReturned
    /\ Len(call.returned.result.output) = 512
    /\ call.returned.result.output[448] = 48
    /\ call.returned.result.output[352] = 33

----------------------------------------------------------------------------
(* The order of the checks in the staking handlers *)

\* C30: a view called with less than its fixed gas gives PrecompileOOG
\* whatever its arguments are, and a call that ends in PrecompileOOG, or
\* whose selector is none of the five, or whose arguments are malformed,
\* loads no slot: the journal, warm slots included, is as it was.
C30_GasThenDecodeThenRead ==
    Handled =>
        /\ (/\ SubSeq(call.input, 1, 4) \in ViewSelectors
            /\ call.gas_limit < ViewGas(SubSeq(call.input, 1, 4))) =>
              (call.returned.result.result = "PrecompileOOG")
        /\ (\/ call.returned.result.result = "PrecompileOOG"
            \/ SubSeq(call.input, 1, 4) \notin ViewSelectors
            \/ /\ TakesArguments
               /\ Malformed(call.input, ArgumentWords(SubSeq(call.input, 1, 4)))) =>
              (staking = call.journal)

\* getDelegator was called with a bad address word and one gas short of its
\* cost, on a journal with cold slots, and was out of gas
C30_Witness ==
    /\ Handled
    /\ SubSeq(call.input, 1, 4) = << 87, 60, 28, 224 >>
    /\ Len(call.input) = 68
    /\ call.input[37] = 1
    /\ call.gas_limit = 184899
    /\ call.journal.warm = {}
    /\ call.returned.result.result = "PrecompileOOG"
    /\ staking = call.journal

====
